---- MODULE Spec2Model ----
(***************************************************************************)
(* Verification model of the AIStore control plane:                        *)
(*   - the on-demand xaction (xaction/demand/demand.go): XactDemandBase    *)
(*     with its pending counter, idle deadline and housekeeper callback;   *)
(*   - the primary proxy's two-phase bucket transactions (ais/prxtxn):     *)
(*     create/destroy/make-n-copies/set-props/rename/copy/ec-encode.       *)
(* Each subsystem has its own variables and its own specification; the     *)
(* variables of the other subsystems stay unchanged.                       *)
(***************************************************************************)
EXTENDS Integers, Sequences, FiniteSets, TLC

(***************************************************************************)
(* State of the primary proxy's transactions (Part II)                     *)
(***************************************************************************)
VARIABLES
    bmd,      \* p.owner.bmd: [version, bcks: bucket name -> props]
    rmd,      \* p.owner.rmd: [version, resilver, locked]
    nlp,      \* name-lock pair of every bucket name: [w: writer holds it, r: readers]
    ops,      \* the bucket operations, by uuid: local variables and what each has done
    nextUUID, \* the uuid the next operation gets (cmn.GenUUID)
    tbmd,     \* tbmd[t]: BMD version target t holds
    trmd,     \* trmd[t]: RMD version target t holds
    ttxn,     \* ttxn[t][u]: what target t has done with transaction u
    msgs,     \* metasync deliveries in flight
    notifs,   \* p.notifs: the registered notification listeners
    holding   \* history: the name-locks held, with the operation that took each

tvars == <<bmd, rmd, nlp, ops, nextUUID, tbmd, trmd, ttxn, msgs, notifs, holding>>

(***************************************************************************)
(* Part I.  XactDemandBase  (src/xaction/demand/demand.go)                 *)
(***************************************************************************)

\* ---- bounds of the demand model
MaxTime == 5
\* idle duration (idleTime) in clock ticks
IdleDur == 2
\* largest number of requests that are pending at once
MaxPending == 2

\* goroutines that call IncPending / SubPending / Renew
Workers == {"w1", "w2"}

\* math.MaxInt64 on the model's clock: later than every deadline the clock reaches
MaxInt64 == MaxTime + IdleDur + 1

VARIABLES
    now,          \* mono.NanoTime()
    pending,      \* XactDemandBase.pending (atomic.Int64)
    deadline,     \* idleInfo.deadline (atomic.Int64)
    ticksClosed,  \* idleInfo.ticks (cmn.StopCh) is closed
    hkRegistered, \* the housekeeper holds the callback registered under idle.uuid
    hkNextFire,   \* the time at which the housekeeper fires the callback next
    stopped,      \* Stop() has been called
    wpc,          \* wpc[w]: where goroutine w stands inside IncPending/SubPending/Renew
    \* history (not program state), read by the properties only
    lastAct,      \* time of the last IncPending / SubPending / Renew call
    lastZero,     \* time at which the idle timer was last (re)started
    sinceTick,    \* a request arrived or was pending since the previous tick
    idleTicks,    \* number of consecutive housekeeper ticks that observed the xaction idle
    closedBy      \* "none" | "tick" | "stop", with the observations made when closing

dvars == <<now, pending, deadline, ticksClosed, hkRegistered, hkNextFire, stopped, wpc,
           lastAct, lastZero, sinceTick, idleTicks, closedBy>>

(***************************************************************************)
(* State of makeNprops taken alone (Part III)                              *)
(***************************************************************************)
VARIABLES
    npIn,     \* the inputs of one call: [cfg, bprops, upd]
    npOut     \* what the call returned: [nprops, remirror, reec, err], or none yet

nvars == <<npIn, npOut>>

(***************************************************************************)
(* State of the target's mountpath run-group (Part IV)                     *)
(***************************************************************************)
VARIABLES
    mp,        \* fs.Mountpaths: [available, disabled], two sets of mountpaths
    runners,   \* g.runners: the registered path runners
    tEnabled,  \* the target is registered in the cluster (t.enable / t.disable)
    gp         \* gp[p]: the mountpath call of goroutine p, and what it has done

gvars == <<mp, runners, tEnabled, gp>>

(***************************************************************************)
(* State of one EC encode request and of one EC restore request (Part V)   *)
(***************************************************************************)
VARIABLES
    enc,   \* putJogger.encode: the request, where it stands, what it has done
    rst    \* getJogger.restore: the request, where it stands, what it has done

evars == <<enc, rst>>

(***************************************************************************)
(* State of the housekeeper taken alone (Part VI)                          *)
(***************************************************************************)
VARIABLES
    hk     \* hk.Housekeeper: its clock, its registry, and what it did last

hvars == <<hk>>

(***************************************************************************)
(* State of the EC joggers of one mountpath (Part VII)                     *)
(***************************************************************************)
VARIABLES
    gj,    \* getJogger: its work channel, its loop, its restore goroutines
    pj     \* putJogger: its two channels and its loop

jvars == <<gj, pj>>

(***************************************************************************)
(* State of the upload of restored slices taken alone (Part VIII)          *)
(***************************************************************************)
VARIABLES
    upl    \* getJogger.uploadRestoredSlices: its arguments and its loop

uvars == <<upl>>

(***************************************************************************)
(* State of the walks and of the base xaction (Part IX)                    *)
(***************************************************************************)
VARIABLES
    wb,    \* fs.WalkBck: the mountpath walkers, their channels, the merge goroutine
    wk,    \* fs.Walk: the error callback's counter and what the walk did with errors
    xa     \* XactBase: the aborted flag, the end time, the abort channel, the callers

wvars == <<wb, wk, xa>>

\* what the steps of one subsystem leave alone: the state of the others
exceptTxn == <<dvars, nvars, gvars, evars, hvars, jvars, uvars, wvars>>
exceptDemand == <<tvars, nvars, gvars, evars, hvars, jvars, uvars, wvars>>
exceptNprops == <<tvars, dvars, gvars, evars, hvars, jvars, uvars, wvars>>
exceptRungroup == <<tvars, dvars, nvars, evars, hvars, jvars, uvars, wvars>>
exceptEC == <<tvars, dvars, nvars, gvars, hvars, jvars, uvars, wvars>>
exceptHk == <<tvars, dvars, nvars, gvars, evars, jvars, uvars, wvars>>
exceptJog == <<tvars, dvars, nvars, gvars, evars, hvars, uvars, wvars>>
exceptUpl == <<tvars, dvars, nvars, gvars, evars, hvars, jvars, wvars>>
exceptWalk == <<tvars, dvars, nvars, gvars, evars, hvars, jvars, uvars>>

NotClosed == [by |-> "none", pending |-> 0, idle |-> FALSE, timerRan |-> FALSE,
              quiet |-> FALSE, idleTicks |-> 0]

\* NewXactDemandBase: deadline = now + idleTime, callback registered (fires at once)
DInit ==
    /\ now = 0
    /\ pending = 0
    /\ deadline = IdleDur
    /\ ticksClosed = FALSE
    /\ hkRegistered = TRUE
    /\ hkNextFire = 0
    /\ stopped = FALSE
    /\ wpc = [w \in Workers |-> "idle"]
    /\ lastAct = 0
    /\ lastZero = 0
    /\ sinceTick = FALSE
    /\ idleTicks = 0
    /\ closedBy = NotClosed

\* the housekeeper callback's test: r.idle.deadline.Load() < mono.NanoTime()
DeadlineMetLE(d, t) == d <= t
DeadlineMetAlways(d, t) == TRUE
DeadlineMet(d, t) == d < t

\* startIdleTimer: the deadline it stores
IdleDeadlineNow(t) == t
IdleDeadline(t) == t + IdleDur

\* consecutive idle ticks, this one included; two and more count as two
IdleTicksNow ==
    IF pending = 0 /\ ~sinceTick THEN (IF idleTicks >= 1 THEN 2 ELSE 1) ELSE 0

\* what is observed when the idle channel is closed: the pending counter, whether
\* idle-duration has passed since the last call (idle) and since the idle timer was
\* last started (timerRan), whether no call is in progress (quiet), the consecutive
\* idle ticks
CloseRecord(who) ==
    [by |-> who, pending |-> pending, idle |-> (now - lastAct >= IdleDur),
     timerRan |-> (now - lastZero > IdleDur),
     quiet |-> (\A w \in Workers : wpc[w] = "idle"), idleTicks |-> IdleTicksNow]

\* the clock advances; the housekeeper fires its callbacks on time
AdvanceTime ==
    /\ now < MaxTime
    /\ hkRegistered => now < hkNextFire
    /\ now' = now + 1
    /\ UNCHANGED exceptDemand
    /\ UNCHANGED <<pending, deadline, ticksClosed, hkRegistered, hkNextFire, stopped, wpc,
                   lastAct, lastZero, sinceTick, idleTicks, closedBy>>

\* the callback registered in NewXactDemandBase; it returns idleTime
HkTick ==
    /\ hkRegistered
    /\ now >= hkNextFire
    /\ hkNextFire' = now + IdleDur
    /\ IF DeadlineMet(deadline, now)
         THEN /\ ticksClosed' = TRUE
              /\ closedBy' = IF ticksClosed THEN closedBy ELSE CloseRecord("tick")
         ELSE UNCHANGED <<ticksClosed, closedBy>>
    /\ idleTicks' = IdleTicksNow
    /\ sinceTick' = FALSE
    /\ UNCHANGED exceptDemand
    /\ UNCHANGED <<now, pending, deadline, hkRegistered, stopped, wpc, lastAct, lastZero>>

\* IncPending, first half: r.pending.Inc()
IncPendingInc(w) ==
    /\ wpc[w] = "idle"
    /\ pending < MaxPending
    /\ pending' = pending + 1
    /\ wpc' = [wpc EXCEPT ![w] = IF pending + 1 = 1 THEN "incStore" ELSE "idle"]
    /\ lastAct' = now
    /\ sinceTick' = TRUE
    /\ UNCHANGED exceptDemand
    /\ UNCHANGED <<now, deadline, ticksClosed, hkRegistered, hkNextFire, stopped,
                   lastZero, idleTicks, closedBy>>

\* IncPending, second half: r.idle.deadline.Store(math.MaxInt64)
IncPendingStore(w) ==
    /\ wpc[w] = "incStore"
    /\ deadline' = MaxInt64
    /\ wpc' = [wpc EXCEPT ![w] = "idle"]
    /\ UNCHANGED exceptDemand
    /\ UNCHANGED <<now, pending, ticksClosed, hkRegistered, hkNextFire, stopped,
                   lastAct, lastZero, sinceTick, idleTicks, closedBy>>

\* SubPending(n) (DecPending is SubPending(1)), first half: r.pending.Sub(n)
SubPendingSub(w, n) ==
    /\ wpc[w] = "idle"
    /\ n >= 1
    /\ n <= pending
    /\ pending' = pending - n
    /\ wpc' = [wpc EXCEPT ![w] = IF pending - n = 0 THEN "subStore" ELSE "idle"]
    /\ lastAct' = now
    /\ UNCHANGED exceptDemand
    /\ UNCHANGED <<now, deadline, ticksClosed, hkRegistered, hkNextFire, stopped,
                   lastZero, sinceTick, idleTicks, closedBy>>

\* Renew, first half: pending := r.Pending(); if pending == 0
RenewLoad(w) ==
    /\ wpc[w] = "idle"
    /\ wpc' = [wpc EXCEPT ![w] = IF pending = 0 THEN "renewStore" ELSE "idle"]
    /\ lastAct' = now
    /\ UNCHANGED exceptDemand
    /\ UNCHANGED <<now, pending, deadline, ticksClosed, hkRegistered, hkNextFire, stopped,
                   lastZero, sinceTick, idleTicks, closedBy>>

\* startIdleTimer, called by SubPending and by Renew
startIdleTimer(w) ==
    /\ wpc[w] \in {"subStore", "renewStore"}
    /\ deadline' = IdleDeadline(now)
    /\ lastZero' = now
    /\ wpc' = [wpc EXCEPT ![w] = "idle"]
    /\ UNCHANGED exceptDemand
    /\ UNCHANGED <<now, pending, ticksClosed, hkRegistered, hkNextFire, stopped,
                   lastAct, sinceTick, idleTicks, closedBy>>

\* Stop: hk.Housekeeper.Unregister(uuid); r.idle.ticks.Close()
Stop ==
    /\ ~stopped
    /\ stopped' = TRUE
    /\ hkRegistered' = FALSE
    /\ ticksClosed' = TRUE
    /\ closedBy' = IF ticksClosed THEN closedBy ELSE CloseRecord("stop")
    /\ UNCHANGED exceptDemand
    /\ UNCHANGED <<now, pending, deadline, hkNextFire, wpc, lastAct, lastZero,
                   sinceTick, idleTicks>>


(***************************************************************************)
(* Part II.  Two-phase bucket transactions on the primary proxy            *)
(*           (src/unnamed/part_000, package ais)                           *)
(***************************************************************************)

\* ---- bound of the transaction model: the number of bucket operations started
MaxTxn == 2

Targets == {"t1", "t2"}
Buckets == {"b1", "b2"}
UUIDs == 1..MaxTxn

\* cfg.Mirror.Copies of the global configuration
CfgMirrorCopies == 2

Kinds == {"create", "destroy", "copies", "setprops", "resetprops", "rename", "copy",
          "ecencode"}

\* ---- errors an operation returns (the nil error is NoErr)
NoErr == <<>>
ErrBucketIsBusy(b) == <<"BucketIsBusy", b>>
ErrBucketAlreadyExists(b) == <<"BucketAlreadyExists", b>>
ErrBucketDoesNotExist(b) == <<"BucketDoesNotExist", b>>
ErrTarget(phase, t) == <<"target", phase, t>>

\* ---- bucket props (cmn.BucketProps): Mirror and EC sections, Renamed marker
DefaultBucketProps ==
    [mirrorEnabled |-> FALSE, copies |-> 1,
     ecEnabled |-> FALSE, dataSlices |-> 0, paritySlices |-> 0, renamed |-> FALSE]

\* a props update (cmn.BucketPropsToUpdate): every field is a pointer, here a set
\* that is empty (nil) or holds the value
NoUpdate ==
    [mirrorEnabled |-> {}, copies |-> {}, ecEnabled |-> {}, dataSlices |-> {},
     paritySlices |-> {}]

Val(s) == CHOOSE x \in s : TRUE

\* nprops.Apply(propsToUpdate)
Apply(bprops, u) ==
    [mirrorEnabled |-> IF u.mirrorEnabled = {} THEN bprops.mirrorEnabled
                       ELSE Val(u.mirrorEnabled),
     copies        |-> IF u.copies = {} THEN bprops.copies ELSE Val(u.copies),
     ecEnabled     |-> IF u.ecEnabled = {} THEN bprops.ecEnabled ELSE Val(u.ecEnabled),
     dataSlices    |-> IF u.dataSlices = {} THEN bprops.dataSlices ELSE Val(u.dataSlices),
     paritySlices  |-> IF u.paritySlices = {} THEN bprops.paritySlices
                       ELSE Val(u.paritySlices),
     renamed       |-> bprops.renamed]

MinI64(a, b) == IF a < b THEN a ELSE b
MaxI64(a, b) == IF a > b THEN a ELSE b

\* nprops.Validate(targetCnt)
Validate(nprops, targetCnt) == TRUE

ECOfEnabledOnly(p) == <<p.ecEnabled>>
ECOf(p) == <<p.ecEnabled, p.dataSlices, p.paritySlices>>

\* makeNprops with cfg.Mirror.Copies = cfg: [nprops, remirror, reec, err]
makeNpropsWith(cfg, bprops, u) ==
    LET n0 == Apply(bprops, u)
        ecErr == bprops.ecEnabled /\ n0.ecEnabled /\ ECOf(bprops) # ECOf(n0)
        newEC == ~bprops.ecEnabled /\ n0.ecEnabled
        n1 == IF newEC
                THEN [n0 EXCEPT !.dataSlices = IF @ = 0 THEN 1 ELSE @,
                                !.paritySlices = IF @ = 0 THEN 1 ELSE @]
                ELSE n0
        newMirror == ~bprops.mirrorEnabled /\ n1.mirrorEnabled
        n2 == IF newMirror
                THEN IF n1.copies = 1
                       THEN [n1 EXCEPT !.copies = MaxI64(cfg, 2)]
                       ELSE n1
                ELSE IF n1.copies = 1 THEN [n1 EXCEPT !.mirrorEnabled = FALSE] ELSE n1
    IN  IF ecErr
          THEN [nprops |-> n0, remirror |-> FALSE, reec |-> FALSE, err |-> <<"ECImmutable">>]
          ELSE [nprops |-> n2, remirror |-> newMirror, reec |-> newEC,
                err |-> IF Validate(n2, Cardinality(Targets)) THEN NoErr
                        ELSE <<"InvalidProps">>]

\* makeNprops under the cluster's configuration
makeNprops(bprops, u) == makeNpropsWith(CfgMirrorCopies, bprops, u)

\* ---- BMD (bucketMD): clone, add, del, set; the clone carries the next version
Present(m, b) == b \in DOMAIN m.bcks
CloneSameVersion(m) == m
Clone(m) == [m EXCEPT !.version = @ + 1]
BmdAdd(m, b, props) == [m EXCEPT !.bcks = [x \in DOMAIN @ \cup {b} |->
                                             IF x = b THEN props ELSE @[x]]]
BmdDel(m, b) == [m EXCEPT !.bcks = [x \in DOMAIN @ \ {b} |-> @[x]]]
BmdSet(m, b, props) == [m EXCEPT !.bcks[b] = props]

\* the entry of a bucket as a set: empty when the bucket is absent
Entry(m, b) == IF Present(m, b) THEN {m.bcks[b]} ELSE {}

\* ---- inputs of the operations
\* the values of make-n-copies (0 does not parse as a number of copies)
CopiesValues == {0, 1, 2}
\* the updates of set-props
PropsUpdates ==
    {[NoUpdate EXCEPT !.mirrorEnabled = {TRUE}],
     [NoUpdate EXCEPT !.ecEnabled = {TRUE}, !.dataSlices = {2}],
     [NoUpdate EXCEPT !.paritySlices = {2}],
     [NoUpdate EXCEPT !.ecEnabled = {FALSE}]}
\* the configurations of ec-encode: [data, parity]
ECConfs == {<<1, 1>>, <<0, 1>>}

\* ---- an operation: its arguments, its local variables, and what it has done
NoOp ==
    [kind |-> "none", bck |-> "b1", bckTo |-> "b1", val |-> 0, upd |-> NoUpdate,
     ec |-> <<0, 0>>,
     pc |-> "none", err |-> NoErr, unlockUpon |-> FALSE, remirror |-> FALSE,
     reec |-> FALSE, nprops |-> DefaultBucketProps,
     bprops |-> DefaultBucketProps, bmdVersion |-> 0, rmdVersion |-> 0,
     \* history
     pre |-> {}, busyWith |-> {}, beginErr |-> FALSE, beginSent |-> 0, abortSent |-> 0,
     puts |-> 0, syncs |-> 0, commitSent |-> 0, commitErr |-> FALSE, undone |-> FALSE,
     registered |-> FALSE, regBeforeCommit |-> FALSE, fin |-> {}, panic |-> FALSE]

TInit ==
    /\ bmd = [version |-> 1, bcks |-> [b \in {"b1"} |-> DefaultBucketProps]]
    /\ rmd = [version |-> 1, resilver |-> FALSE, locked |-> FALSE]
    /\ nlp = [b \in Buckets |-> [w |-> FALSE, r |-> 0]]
    /\ ops = [u \in UUIDs |-> NoOp]
    /\ nextUUID = 1
    /\ tbmd = [t \in Targets |-> 1]
    /\ trmd = [t \in Targets |-> 1]
    /\ ttxn = [t \in Targets |-> [u \in UUIDs |-> "none"]]
    /\ msgs = {}
    /\ notifs = {}
    /\ holding = {}



\* the requests the proxy serves: kind and arguments
OpInputs ==
    [kind : {"create", "destroy", "resetprops"}, bck : Buckets, bckTo : {"b1"},
     val : {0}, upd : {NoUpdate}, ec : {<<0, 0>>}]
    \cup [kind : {"copies"}, bck : Buckets, bckTo : {"b1"}, val : CopiesValues,
          upd : {NoUpdate}, ec : {<<0, 0>>}]
    \cup [kind : {"setprops"}, bck : Buckets, bckTo : {"b1"}, val : {0},
          upd : PropsUpdates, ec : {<<0, 0>>}]
    \cup [kind : {"rename", "copy"}, bck : Buckets, bckTo : Buckets, val : {0},
          upd : {NoUpdate}, ec : {<<0, 0>>}]
    \cup [kind : {"ecencode"}, bck : Buckets, bckTo : {"b1"}, val : {0},
          upd : {NoUpdate}, ec : ECConfs]

\* ---- name-lock pair (cluster.NameLockPair)
NlpFree(l, b) == ~l[b].w /\ l[b].r = 0
NlpNoWriter(l, b) == ~l[b].w
NlpLock(l, b) == [l EXCEPT ![b].w = TRUE]
NlpRLock(l, b) == [l EXCEPT ![b].r = @ + 1]
NlpUnlock(l, b) == [l EXCEPT ![b].w = FALSE]
NlpRUnlock(l, b) == [l EXCEPT ![b].r = IF @ > 0 THEN @ - 1 ELSE 0]

\* who holds a lock on name b (history)
HoldersOf(b) == {h.uuid : h \in {x \in holding : x.bck = b}}
Held(u, b, mode) == [uuid |-> u, bck |-> b, mode |-> mode]
HeldBy(u) == {h \in holding : h.uuid = u}

\* the operations that take their name-locks with TryLock; create and destroy block
\* in Lock
TriesLock(kind) == kind \notin {"create", "destroy"}

\* `if !nlp.TryLock() { return cmn.NewErrorBucketIsBusy(...) }`
FailsFastNever(kind, free) == FALSE
FailsFast(kind, free) == ~free

\* the mode in which an operation locks its (source) bucket: copy-bucket reads it
SrcMode(kind) == IF kind = "copy" THEN "r" ELSE "w"

\* the deferred unlock of an operation: the locks it took, when !unlockUpon
UnlockOp(l, o) ==
    CASE o.kind = "rename" -> NlpUnlock(NlpUnlock(l, o.bckTo), o.bck)
      [] o.kind = "copy"   -> NlpRUnlock(NlpUnlock(l, o.bckTo), o.bck)
      [] OTHER             -> NlpUnlock(l, o.bck)

\* `defer func() { if !unlockUpon { nlp.Unlock() } }()`
DeferredUnlockAlways(unlockUpon) == TRUE
DeferredUnlock(unlockUpon) == ~unlockUpon

\* the operation u returns e from inside the deferred unlock's scope; o is its record
Return(u, o, e) ==
    /\ ops' = [ops EXCEPT ![u] = [o EXCEPT !.pc = "done", !.err = e]]
    /\ IF DeferredUnlock(o.unlockUpon)
         THEN /\ nlp' = UnlockOp(nlp, o)
              /\ holding' = holding \ HeldBy(u)
         ELSE UNCHANGED <<nlp, holding>>

\* the operation u returns e before it holds any lock
ReturnEarly(u, o, e) ==
    /\ ops' = [ops EXCEPT ![u] = [o EXCEPT !.pc = "done", !.err = e]]
    /\ UNCHANGED <<nlp, holding>>

\* ---- a request arrives at the primary
StartOp(in) ==
    /\ nextUUID <= MaxTxn
    /\ nextUUID' = nextUUID + 1
    /\ ops' = [ops EXCEPT ![nextUUID] =
                 [NoOp EXCEPT !.kind = in.kind, !.bck = in.bck,
                              !.bckTo = IF in.kind \in {"rename", "copy"}
                                          THEN in.bckTo ELSE in.bck,
                              !.val = in.val, !.upd = in.upd, !.ec = in.ec,
                              !.pc = "lock"]]
    /\ UNCHANGED <<bmd, rmd, nlp, tbmd, trmd, ttxn, msgs, notifs, holding>>
    /\ UNCHANGED exceptTxn

\* parseNCopies / parseECConf and the checks that precede the lock
ArgsErr(o) ==
    CASE o.kind = "copies" /\ o.val < 1 -> <<"InvalidCopies">>
      [] o.kind = "ecencode" /\ (o.ec[1] < 1 \/ o.ec[2] < 1) -> <<"InvalidSlices">>
      [] OTHER -> NoErr

\* nlp.Lock() (create, destroy), nlp.TryLock() or nlpFrom.TryRLock() (copy): the lock
\* on the operation's own bucket
AcquireLock(u, rebOk) ==
    LET o == ops[u]
        free == IF SrcMode(o.kind) = "r" THEN NlpNoWriter(nlp, o.bck)
                ELSE NlpFree(nlp, o.bck)
        next == IF o.kind \in {"rename", "copy"} THEN "lock2" ELSE "check"
    IN
    /\ o.pc = "lock"
    /\ UNCHANGED <<bmd, rmd, nextUUID, tbmd, trmd, ttxn, msgs, notifs>>
    /\ UNCHANGED exceptTxn
    /\ IF ArgsErr(o) # NoErr
         THEN ReturnEarly(u, o, ArgsErr(o))
       ELSE IF o.kind = "rename" /\ ~rebOk
         THEN ReturnEarly(u, o, <<"CannotStartRebalance">>)
       ELSE IF ~TriesLock(o.kind)
         THEN /\ free
              /\ nlp' = NlpLock(nlp, o.bck)
              /\ holding' = holding \cup {Held(u, o.bck, "w")}
              /\ ops' = [ops EXCEPT ![u].pc = next]
       ELSE IF FailsFast(o.kind, free)
         THEN ReturnEarly(u, [o EXCEPT !.busyWith = HoldersOf(o.bck)],
                          ErrBucketIsBusy(o.bck))
       ELSE /\ nlp' = IF SrcMode(o.kind) = "r" THEN NlpRLock(nlp, o.bck)
                      ELSE NlpLock(nlp, o.bck)
            /\ holding' = holding \cup {Held(u, o.bck, SrcMode(o.kind))}
            /\ ops' = [ops EXCEPT ![u].pc = next,
                                  ![u].busyWith = IF free THEN {} ELSE HoldersOf(o.bck)]

\* rename and copy: nlpTo.TryLock(); on failure the source is unlocked again
AcquireLockTo(u) ==
    LET o == ops[u]
        free == NlpFree(nlp, o.bckTo)
    IN
    /\ o.pc = "lock2"
    /\ UNCHANGED <<bmd, rmd, nextUUID, tbmd, trmd, ttxn, msgs, notifs>>
    /\ UNCHANGED exceptTxn
    /\ IF FailsFast(o.kind, free)
         THEN /\ ops' = [ops EXCEPT ![u] = [o EXCEPT !.pc = "done",
                                               !.err = ErrBucketIsBusy(o.bckTo),
                                               !.busyWith = HoldersOf(o.bckTo)]]
              /\ nlp' = IF SrcMode(o.kind) = "r" THEN NlpRUnlock(nlp, o.bck)
                        ELSE NlpUnlock(nlp, o.bck)
              /\ holding' = holding \ HeldBy(u)
         ELSE /\ nlp' = NlpLock(nlp, o.bckTo)
              /\ holding' = holding \cup {Held(u, o.bckTo, "w")}
              /\ ops' = [ops EXCEPT ![u].pc = "check",
                                    ![u].busyWith = IF free THEN {} ELSE HoldersOf(o.bckTo)]


\* ---- metasync: p.metasyncer.sync(revsPair{...}) queues one delivery per target of
\* the Smap; the wait handle of sync number sid is done when none is left
Sync(kind, ver, sid) ==
    {[to |-> t, kind |-> kind, ver |-> ver, sid |-> sid] : t \in Targets}
InFlight(kind, sid) == {m \in msgs : m.kind = kind /\ m.sid = sid}

\* wg.Wait() before the commit: which operations wait for their BMD's metasync
WaitsForMetasyncNever(kind) == FALSE
WaitsForMetasync(kind) == TRUE

\* step 1 of every operation: existence / non-existence under the BMD lock.
\* destroy-bucket deletes, publishes and metasyncs under the same BMD lock.
CheckBMD(u) ==
    LET o == ops[u]
        e == CASE o.kind = "create" /\ Present(bmd, o.bck) -> ErrBucketAlreadyExists(o.bck)
               [] o.kind # "create" /\ ~Present(bmd, o.bck) -> ErrBucketDoesNotExist(o.bck)
               [] o.kind = "rename" /\ Present(bmd, o.bck) /\ Present(bmd, o.bckTo)
                    -> ErrBucketAlreadyExists(o.bckTo)
               [] o.kind = "ecencode" /\ Present(bmd, o.bck) /\ bmd.bcks[o.bck].ecEnabled
                    -> <<"ECAlreadyEnabled", o.bck>>
               [] OTHER -> NoErr
        clone == BmdDel(Clone(bmd), o.bck)
    IN
    /\ o.pc = "check"
    /\ UNCHANGED <<rmd, nextUUID, tbmd, trmd, ttxn, notifs>>
    /\ UNCHANGED exceptTxn
    /\ IF e # NoErr
         THEN Return(u, o, e) /\ UNCHANGED <<bmd, msgs>>
       ELSE IF o.kind = "destroy"
         THEN /\ bmd' = clone
              /\ msgs' = msgs \cup Sync("bmd", clone.version, u)
              /\ ops' = [ops EXCEPT ![u] = [o EXCEPT !.pc = "wait", !.pre = Entry(bmd, o.bck),
                                               !.puts = @ + 1, !.syncs = @ + 1,
                                               !.bmdVersion = clone.version]]
              /\ UNCHANGED <<nlp, holding>>
       ELSE /\ ops' = [ops EXCEPT ![u] = [o EXCEPT !.pc = "begin",
                                             !.pre = Entry(bmd, o.bck),
                                             !.bprops = IF Present(bmd, o.bck)
                                                          THEN bmd.bcks[o.bck] ELSE @]]
            /\ UNCHANGED <<bmd, msgs, nlp, holding>>

\* what the proxy does when a target answers begin with an error
OnBeginErrIgnore(kind) == "update"
OnBeginErr(kind) == "abort"

\* step 2: p.bcastPost(begin); errs are the targets that answer with an error, first
\* is the one whose error the loop over the results meets first.
\* set-props makes and validates nprops first and returns its error without a begin.
Begin(u, errs, first) ==
    LET o == ops[u]
        np == IF o.kind = "setprops" THEN makeNprops(o.bprops, o.upd)
              ELSE [nprops |-> DefaultBucketProps, remirror |-> FALSE, reec |-> FALSE,
                    err |-> NoErr]
    IN
    /\ o.pc = "begin"
    /\ errs # {} => first \in errs
    /\ errs = {} => first = CHOOSE t \in Targets : TRUE
    /\ UNCHANGED <<bmd, rmd, nextUUID, tbmd, trmd, msgs, notifs>>
    /\ UNCHANGED exceptTxn
    /\ IF np.err # NoErr
         THEN /\ errs = {}
              /\ Return(u, o, np.err)
              /\ UNCHANGED ttxn
         ELSE /\ ttxn' = [t \in Targets |->
                            IF t \in errs THEN ttxn[t] ELSE [ttxn[t] EXCEPT ![u] = "begun"]]
              /\ UNCHANGED <<nlp, holding>>
              /\ ops' = [ops EXCEPT ![u] =
                           IF errs # {}
                             THEN [o EXCEPT !.pc = OnBeginErr(o.kind), !.beginSent = @ + 1,
                                            !.beginErr = TRUE,
                                            !.err = ErrTarget("begin", first)]
                             ELSE [o EXCEPT !.pc = "update", !.beginSent = @ + 1,
                                            !.nprops = np.nprops]]

\* the abort broadcast, then `return res.err`
Abort(u) ==
    LET o == ops[u] IN
    /\ o.pc = "abort"
    /\ ttxn' = [t \in Targets |->
                  IF ttxn[t][u] = "begun" THEN [ttxn[t] EXCEPT ![u] = "aborted"]
                  ELSE ttxn[t]]
    /\ Return(u, [o EXCEPT !.abortSent = @ + 1], o.err)
    /\ UNCHANGED <<bmd, rmd, nextUUID, tbmd, trmd, msgs, notifs>>
    /\ UNCHANGED exceptTxn

\* step 3: the clone of the BMD each operation publishes
NewBMD(o) ==
    LET c == Clone(bmd)
        cur == c.bcks[o.bck]
    IN  CASE o.kind = "create" -> BmdAdd(c, o.bck, DefaultBucketProps)
          [] o.kind = "copies" ->
               BmdSet(c, o.bck, [cur EXCEPT !.mirrorEnabled = o.val > 1, !.copies = o.val])
          [] o.kind = "setprops" -> BmdSet(c, o.bck, makeNprops(cur, o.upd).nprops)
          [] o.kind = "resetprops" -> BmdSet(c, o.bck, DefaultBucketProps)
          [] o.kind = "rename" ->
               BmdSet(BmdAdd(c, o.bckTo, cur), o.bck, [cur EXCEPT !.renamed = TRUE])
          [] o.kind = "copy" -> BmdAdd(c, o.bckTo, cur)
          [] o.kind = "ecencode" ->
               BmdSet(c, o.bck, [cur EXCEPT !.ecEnabled = TRUE, !.dataSlices = o.ec[1],
                                            !.paritySlices = o.ec[2]])

\* cmn.Assert(added) / cmn.Assert(present) / cmn.AssertNoErr(err) of step 3
UpdateAsserts(o) ==
    CASE o.kind = "create" -> ~Present(bmd, o.bck)
      [] o.kind = "rename" -> Present(bmd, o.bck) /\ ~Present(bmd, o.bckTo)
      [] o.kind = "setprops" ->
           Present(bmd, o.bck) /\ makeNprops(bmd.bcks[o.bck], o.upd).err = NoErr
      [] OTHER -> Present(bmd, o.bck)

\* steps 3 and 4: lock the BMD, clone, update, put; metasync; unlock the BMD.
\* copy-bucket publishes nothing when the destination exists already.
UpdateBMD(u) ==
    LET o == ops[u]
        clone == NewBMD(o)
        mk == IF o.kind = "setprops" /\ Present(bmd, o.bck)
                THEN makeNprops(bmd.bcks[o.bck], o.upd)
                ELSE [nprops |-> o.nprops, remirror |-> FALSE, reec |-> FALSE,
                      err |-> NoErr]
    IN
    /\ o.pc = "update"
    /\ UNCHANGED <<rmd, nlp, nextUUID, tbmd, trmd, ttxn, notifs, holding>>
    /\ UNCHANGED exceptTxn
    /\ IF ~UpdateAsserts(o)
         THEN /\ ops' = [ops EXCEPT ![u].pc = "panic", ![u].panic = TRUE]
              /\ UNCHANGED <<bmd, msgs>>
       ELSE IF o.kind = "copy" /\ Present(bmd, o.bckTo)
         THEN /\ ops' = [ops EXCEPT ![u].pc = "notif"]
              /\ UNCHANGED <<bmd, msgs>>
       ELSE /\ bmd' = clone
            /\ msgs' = msgs \cup Sync("bmd", clone.version, u)
            /\ ops' = [ops EXCEPT ![u] =
                         [o EXCEPT !.pc = "wait", !.puts = @ + 1, !.syncs = @ + 1,
                                   !.bmdVersion = clone.version,
                                   !.bprops = IF Present(bmd, o.bck)
                                                THEN bmd.bcks[o.bck] ELSE @,
                                   !.remirror = mk.remirror, !.reec = mk.reec]]

\* the operations that register a notification listener
ListensNever(o) == FALSE
Listens(o) ==
    \/ o.kind \in {"copies", "ecencode", "copy", "rename"}
    \/ o.kind = "setprops" /\ (o.remirror \/ o.reec)

\* wg.Wait(): the metasync of the operation's BMD has signalled completion
Wait(u) ==
    LET o == ops[u] IN
    /\ o.pc = "wait"
    /\ WaitsForMetasync(o.kind) => InFlight("bmd", u) = {}
    /\ UNCHANGED <<bmd, rmd, nextUUID, tbmd, trmd, ttxn, msgs, notifs>>
    /\ UNCHANGED exceptTxn
    /\ IF o.kind = "destroy"
         THEN Return(u, o, NoErr)
         ELSE /\ ops' = [ops EXCEPT ![u].pc = IF Listens(o) /\ o.kind # "rename"
                                                THEN "notif" ELSE "commit"]
              /\ UNCHANGED <<nlp, holding>>


\* ---- notification listeners (p.notifs)
\* the done-callback of each operation's listener
ListenerCb(kind) ==
    CASE kind = "copy" -> "nlBckCopy"
      [] kind = "rename" -> "nlBckFromToCb"
      [] OTHER -> "nlBckCb"

Listener(u, o, rebVersion) ==
    [uuid |-> u, f |-> ListenerCb(o.kind), srcs |-> Targets, bck |-> o.bck,
     bckTo |-> o.bckTo, rmdVersion |-> rebVersion]

\* step 5: p.notifs.add(c.uuid, &nl); set-props unlocks upon notifications from here.
\* rename registers after its commit, under the RMD lock, and then metasyncs the RMD.
RegisterListener(u) ==
    LET o == ops[u] IN
    /\ o.pc = "notif"
    /\ notifs' = notifs \cup
                   {Listener(u, o, IF o.kind = "rename" THEN o.rmdVersion ELSE 0)}
    /\ IF o.kind = "rename"
         THEN /\ msgs' = msgs \cup Sync("rmd", o.rmdVersion, u)
              /\ rmd' = [rmd EXCEPT !.locked = FALSE]
              /\ ops' = [ops EXCEPT ![u] = [o EXCEPT !.pc = "wait2", !.registered = TRUE,
                                               !.regBeforeCommit = (o.commitSent = 0)]]
         ELSE /\ ops' = [ops EXCEPT ![u] =
                           [o EXCEPT !.pc = "commit", !.registered = TRUE,
                                     !.regBeforeCommit = (o.commitSent = 0),
                                     !.unlockUpon = IF o.kind = "setprops" THEN TRUE ELSE @]]
              /\ UNCHANGED <<msgs, rmd>>
    /\ UNCHANGED <<bmd, nlp, nextUUID, tbmd, trmd, ttxn, holding>>
    /\ UNCHANGED exceptTxn

\* `unlockUpon = true` ahead of the commit broadcast
UnlockUponAtCommitNever(kind) == FALSE
UnlockUponAtCommit(kind) == kind \in {"copies", "ecencode", "copy", "rename"}

\* what each operation does with a commit error: "undo" (roll back, return the error),
\* "return" (return the error), "ignore" (the results are dropped, nil is returned)
OnCommitErrAlwaysUndo(kind) == "undo"
OnCommitErrNeverUndo(kind) == "ignore"
OnCommitErr(kind) ==
    CASE kind \in {"create", "copies"} -> "undo"
      [] kind = "ecencode" -> "return"
      [] OTHER -> "ignore"

\* step 6: p.bcastPost(commit); errs are the targets that answer with an error.
\* A target commits a transaction it has begun.
Commit(u, errs, first) ==
    LET o == ops[u]
        bad == errs \cup {t \in Targets : ttxn[t][u] # "begun"}
        o1 == [o EXCEPT !.commitSent = @ + 1,
                        !.commitErr = (bad # {}),
                        !.unlockUpon = IF UnlockUponAtCommit(o.kind) THEN TRUE ELSE @,
                        !.rmdVersion = IF o.kind = "rename" THEN rmd.version + 1 ELSE @]
        e == ErrTarget("commit", first)
    IN
    /\ o.pc = "commit"
    /\ bad # {} => first \in bad
    /\ bad = {} => first = CHOOSE t \in Targets : TRUE
    /\ o.kind = "rename" => ~rmd.locked
    /\ rmd' = IF o.kind = "rename"
                THEN [version |-> rmd.version + 1, resilver |-> TRUE, locked |-> TRUE]
                ELSE rmd
    /\ ttxn' = [t \in Targets |->
                  [ttxn[t] EXCEPT ![u] = IF t \in bad THEN "commitErr" ELSE "committed"]]
    /\ UNCHANGED <<bmd, nextUUID, tbmd, trmd, msgs, notifs>>
    /\ UNCHANGED exceptTxn
    /\ IF o.kind = "rename"
         THEN /\ ops' = [ops EXCEPT ![u] = [o1 EXCEPT !.pc = "notif"]]
              /\ UNCHANGED <<nlp, holding>>
       ELSE IF bad # {} /\ OnCommitErr(o.kind) = "undo"
         THEN /\ ops' = [ops EXCEPT ![u] = [o1 EXCEPT !.pc = "undo", !.err = e]]
              /\ UNCHANGED <<nlp, holding>>
       ELSE IF bad # {} /\ OnCommitErr(o.kind) = "return"
         THEN Return(u, o1, e)
       ELSE Return(u, o1, NoErr)

\* undoCreateBucket / undoUpdateCopies: the BMD the rollback publishes
UndoBMD(o) ==
    LET c == Clone(bmd) IN
    IF o.kind = "create"
      THEN BmdDel(c, o.bck)
      ELSE BmdSet(c, o.bck, [c.bcks[o.bck] EXCEPT !.mirrorEnabled = o.bprops.mirrorEnabled,
                                                   !.copies = o.bprops.copies])

\* the compensating rollback, then `return res.err`; the rollback's metasync is not
\* waited for
Undo(u) ==
    LET o == ops[u] IN
    /\ o.pc = "undo"
    /\ IF Present(bmd, o.bck)
         THEN /\ bmd' = UndoBMD(o)
              /\ msgs' = msgs \cup Sync("bmd", bmd.version + 1, 0)
              /\ Return(u, [o EXCEPT !.undone = TRUE, !.puts = @ + 1, !.syncs = @ + 1],
                        o.err)
         ELSE /\ UNCHANGED <<bmd, msgs>>
              /\ Return(u, o, o.err)
    /\ UNCHANGED <<rmd, nextUUID, tbmd, trmd, ttxn, notifs>>
    /\ UNCHANGED exceptTxn

\* rename: the final wg.Wait(), for the metasync of the RMD
WaitRMD(u) ==
    LET o == ops[u] IN
    /\ o.pc = "wait2"
    /\ InFlight("rmd", u) = {}
    /\ Return(u, o, NoErr)
    /\ UNCHANGED <<bmd, rmd, nextUUID, tbmd, trmd, ttxn, msgs, notifs>>
    /\ UNCHANGED exceptTxn

\* ---- the rest of the cluster
\* a target receives a metasync'ed BMD or RMD; a lower version is ignored
MetasyncDeliver(m) ==
    /\ m \in msgs
    /\ msgs' = msgs \ {m}
    /\ tbmd' = IF m.kind = "bmd" /\ m.ver > tbmd[m.to]
                 THEN [tbmd EXCEPT ![m.to] = m.ver] ELSE tbmd
    /\ trmd' = IF m.kind = "rmd" /\ m.ver > trmd[m.to]
                 THEN [trmd EXCEPT ![m.to] = m.ver] ELSE trmd
    /\ UNCHANGED <<bmd, rmd, nlp, ops, nextUUID, ttxn, notifs, holding>>
    /\ UNCHANGED exceptTxn

\* nlBckCb / nlBckCopy / nlBckFromToCb: the unlocks of the listener's callback
nlCallback(l, n) ==
    CASE n.f = "nlBckCb" -> NlpUnlock(l, n.bck)
      [] n.f = "nlBckCopy" -> NlpRUnlock(NlpUnlock(l, n.bckTo), n.bck)
      [] n.f = "nlBckFromToCb" -> NlpUnlock(NlpUnlock(l, n.bckTo), n.bck)

\* the listener calls back once every source has reported
CallsBackAfterFirst(srcs) == TRUE
CallsBack(srcs) == srcs = {}

\* target t, which has committed the transaction (and, for a rename, holds the new
\* RMD), reports `finished` to the listener n
TargetFinished(n, t) ==
    LET left == n.srcs \ {t} IN
    /\ n \in notifs
    /\ t \in n.srcs
    /\ ttxn[t][n.uuid] = "committed"
    /\ trmd[t] >= n.rmdVersion
    /\ ops' = [ops EXCEPT ![n.uuid].fin = @ \cup {t}]
    /\ IF CallsBack(left)
         THEN /\ notifs' = notifs \ {n}
              /\ nlp' = nlCallback(nlp, n)
              /\ holding' = holding \ HeldBy(n.uuid)
         ELSE /\ notifs' = (notifs \ {n}) \cup {[n EXCEPT !.srcs = left]}
              /\ UNCHANGED <<nlp, holding>>
    /\ UNCHANGED <<bmd, rmd, nextUUID, tbmd, trmd, ttxn, msgs>>
    /\ UNCHANGED exceptTxn

TNext ==
    \/ \E in \in OpInputs : StartOp(in)
    \/ \E u \in UUIDs, rebOk \in BOOLEAN : AcquireLock(u, rebOk)
    \/ \E u \in UUIDs : AcquireLockTo(u)
    \/ \E u \in UUIDs : CheckBMD(u)
    \/ \E u \in UUIDs, errs \in SUBSET Targets, first \in Targets : Begin(u, errs, first)
    \/ \E u \in UUIDs : Abort(u)
    \/ \E u \in UUIDs : UpdateBMD(u)
    \/ \E u \in UUIDs : Wait(u)
    \/ \E u \in UUIDs : RegisterListener(u)
    \/ \E u \in UUIDs, errs \in SUBSET Targets, first \in Targets : Commit(u, errs, first)
    \/ \E u \in UUIDs : Undo(u)
    \/ \E u \in UUIDs : WaitRMD(u)
    \/ \E m \in msgs : MetasyncDeliver(m)
    \/ \E n \in notifs, t \in Targets : TargetFinished(n, t)

DNext ==
    \/ AdvanceTime
    \/ HkTick
    \/ \E w \in Workers : IncPendingInc(w)
    \/ \E w \in Workers : IncPendingStore(w)
    \/ \E w \in Workers, n \in 1..MaxPending : SubPendingSub(w, n)
    \/ \E w \in Workers : RenewLoad(w)
    \/ \E w \in Workers : startIdleTimer(w)
    \/ Stop

(***************************************************************************)
(* Part III.  makeNprops taken alone (src/unnamed/part_000)                *)
(***************************************************************************)

\* the values of cfg.Mirror.Copies
CfgCopies == 1..3
\* the current props of the bucket: a mirrored bucket has at least 2 copies
BpropsInputs ==
    {b \in [mirrorEnabled : BOOLEAN, copies : 1..3, ecEnabled : BOOLEAN,
             dataSlices : {0, 2}, paritySlices : {0, 1}, renamed : {FALSE}] :
        /\ b.mirrorEnabled => b.copies >= 2
        /\ b.ecEnabled => (b.dataSlices > 0 /\ b.paritySlices > 0)}
\* the updates
UpdInputs ==
    [mirrorEnabled : {{}, {TRUE}, {FALSE}}, copies : {{}, {1}, {2}},
     ecEnabled : {{}, {TRUE}, {FALSE}}, dataSlices : {{}, {1}}, paritySlices : {{}}]

NInit ==
    /\ npIn \in [cfg : CfgCopies, bprops : BpropsInputs, upd : UpdInputs]
    /\ npOut = {}

\* no call of makeNprops is looked at
NInitNone ==
    /\ npIn = [cfg |-> CfgMirrorCopies, bprops |-> DefaultBucketProps, upd |-> NoUpdate]
    /\ npOut = {}

\* nprops, remirror, reec, err = p.makeNprops(bck, propsToUpdate)
CallMakeNprops ==
    /\ npOut = {}
    /\ npOut' = {makeNpropsWith(npIn.cfg, npIn.bprops, npIn.upd)}
    /\ UNCHANGED npIn
    /\ UNCHANGED exceptNprops

NNext == CallMakeNprops

(***************************************************************************)
(* Part IV.  fsprungroup  (src/ais/fspathrgrp.go)                          *)
(***************************************************************************)

Mpaths == {"m1", "m2"}
Runners == {"r1", "r2"}
\* goroutines that call add / remove / enable / disable mountpath
Callers == {"g1", "g2"}
MpOps == {"add", "remove", "enable", "disable"}

\* a goroutine outside every call
NoCall ==
    [op |-> "none", mpath |-> "m1", pc |-> "idle", flipped |-> FALSE, err |-> NoErr,
     visited |-> {},
     \* history of the call: it started a local rebalance, it called t.enable() or
     \* t.disable(), it made the first mountpath available
     reb |-> FALSE, regCall |-> FALSE, first |-> FALSE]

GInit ==
    /\ mp = [available |-> Mpaths, disabled |-> {}]
    /\ runners = {}
    /\ tEnabled = TRUE
    /\ gp = [p \in Callers |-> NoCall]

\* fs.Mountpaths.Add / Remove / Enable / Disable: [mp, flipped, err]
MpApply(op, m, cur) ==
    LET known == m \in cur.available \cup cur.disabled
        same == [mp |-> cur, flipped |-> FALSE, err |-> NoErr]
    IN  CASE op = "add" ->
               IF known THEN [same EXCEPT !.err = <<"MountpathExists", m>>]
               ELSE [mp |-> [cur EXCEPT !.available = @ \cup {m}], flipped |-> TRUE,
                     err |-> NoErr]
          [] op = "remove" ->
               IF ~known THEN [same EXCEPT !.err = <<"MountpathNotFound", m>>]
               ELSE [mp |-> [available |-> cur.available \ {m},
                             disabled |-> cur.disabled \ {m}],
                     flipped |-> TRUE, err |-> NoErr]
          [] op = "enable" ->
               IF ~known THEN [same EXCEPT !.err = <<"MountpathNotFound", m>>]
               ELSE IF m \in cur.available THEN same
               ELSE [mp |-> [available |-> cur.available \cup {m},
                             disabled |-> cur.disabled \ {m}],
                     flipped |-> TRUE, err |-> NoErr]
          [] op = "disable" ->
               IF ~known THEN [same EXCEPT !.err = <<"MountpathNotFound", m>>]
               ELSE IF m \in cur.disabled THEN same
               ELSE [mp |-> [available |-> cur.available \ {m},
                             disabled |-> cur.disabled \cup {m}],
                     flipped |-> TRUE, err |-> NoErr]

\* `if err != nil || !enabled { return }`: the call goes on to the runners
ActsAlways(flipped, err) == TRUE
Acts(flipped, err) == flipped /\ err = NoErr

\* the first statements of enableMountpath / disableMountpath / addMountpath /
\* removeMountpath: the change of fs.Mountpaths (for add, the bucket directories
\* too) and the early return
MpathCall(p, op, m, dirErr) ==
    LET r == MpApply(op, m, mp)
        e == IF op = "add" /\ r.err = NoErr /\ dirErr THEN <<"CreateBucketDir", m>>
             ELSE r.err
        acts == Acts(r.flipped, e)
    IN
    /\ gp[p].pc = "idle"
    /\ dirErr => (op = "add" /\ r.err = NoErr)
    /\ mp' = r.mp
    /\ gp' = [gp EXCEPT ![p] =
                 [NoCall EXCEPT !.op = op, !.mpath = m, !.flipped = r.flipped, !.err = e,
                                !.pc = IF acts THEN "notify" ELSE "idle",
                                !.first = acts /\ mp.available = {}
                                             /\ r.mp.available # {}]]
    /\ UNCHANGED <<runners, tEnabled>>
    /\ UNCHANGED exceptRungroup

\* `for _, r := range g.runners { r.ReqXxxMountpath(mpath) }`: one runner
NotifyRunner(p, r) ==
    /\ gp[p].pc = "notify"
    /\ r \in runners \ gp[p].visited
    /\ gp' = [gp EXCEPT ![p].visited = @ \cup {r}]
    /\ UNCHANGED <<mp, runners, tEnabled>>
    /\ UNCHANGED exceptRungroup

\* the end of the loop; enable and add start the local rebalance here
NotifyDone(p) ==
    /\ gp[p].pc = "notify"
    /\ runners \ gp[p].visited = {}
    /\ gp' = [gp EXCEPT ![p].pc = "check", ![p].visited = {},
                         ![p].reb = gp[p].op \in {"enable", "add"}]
    /\ UNCHANGED <<mp, runners, tEnabled>>
    /\ UNCHANGED exceptRungroup

\* checkEnable (enable, add) / checkDisable (disable, remove) and the return;
\* regErr: t.enable() / t.disable() fails
CheckTarget(p, regErr) ==
    LET c == gp[p]
        n == Cardinality(mp.available)
    IN
    /\ c.pc = "check"
    /\ IF c.op \in {"enable", "add"}
         THEN IF n > 1
                THEN /\ gp' = [gp EXCEPT ![p].pc = "idle", ![p].first = FALSE]
                     /\ UNCHANGED tEnabled
                ELSE /\ gp' = [gp EXCEPT ![p].pc = "idle", ![p].regCall = TRUE,
                                         ![p].first = FALSE]
                     /\ tEnabled' = IF regErr THEN tEnabled ELSE TRUE
         ELSE IF n > 0
                THEN /\ gp' = [gp EXCEPT ![p].pc = "idle", ![p].reb = TRUE]
                     /\ UNCHANGED tEnabled
                ELSE /\ gp' = [gp EXCEPT ![p].pc = "idle", ![p].regCall = TRUE]
                     /\ tEnabled' = IF regErr THEN tEnabled ELSE FALSE
    /\ UNCHANGED <<mp, runners>>
    /\ UNCHANGED exceptRungroup

\* Reg: under g.Lock(), assert not registered, register
Reg(r) ==
    /\ r \notin runners
    /\ runners' = runners \cup {r}
    /\ UNCHANGED <<mp, tEnabled, gp>>
    /\ UNCHANGED exceptRungroup

\* Unreg: under g.Lock(), assert registered, delete
Unreg(r) ==
    /\ r \in runners
    /\ runners' = runners \ {r}
    /\ UNCHANGED <<mp, tEnabled, gp>>
    /\ UNCHANGED exceptRungroup

GNext ==
    \/ \E p \in Callers, op \in MpOps, m \in Mpaths, dirErr \in BOOLEAN :
           MpathCall(p, op, m, dirErr)
    \/ \E p \in Callers, r \in Runners : NotifyRunner(p, r)
    \/ \E p \in Callers : NotifyDone(p)
    \/ \E p \in Callers, regErr \in BOOLEAN : CheckTarget(p, regErr)
    \/ \E r \in Runners : Reg(r)
    \/ \E r \in Runners : Unreg(r)

(***************************************************************************)
(* Part V.  EC encode and restore  (src/unnamed/part_004, package ec)      *)
(***************************************************************************)

\* ---- bounds of the EC model: the largest number of targets in the Smap, the
\* largest number of data slices and of parity slices
MaxTargetCnt == 5
MaxData == 2
MaxParity == 2

\* ---- putJogger.encode
\* a request: the bucket's EC configuration, the Smap's size, and what fails
EncInputs ==
    {r \in [isCopy : BOOLEAN, data : 1..MaxData, parity : 1..MaxParity,
             targetCnt : 2..MaxTargetCnt, metaFails : BOOLEAN, genFails : BOOLEAN,
             sendFails : SUBSET (1..(MaxData + MaxParity))] :
        r.sendFails \subseteq 1..(r.data + r.parity)}

EncStart(in) ==
    [in |-> in, pc |-> "check", err |-> NoErr, metaOnDisk |-> FALSE, left |-> {},
     sent |-> {}, delSent |-> FALSE]

EInit == enc \in {EncStart(in) : in \in EncInputs}

\* `if targetCnt < reqTargets { return fmt.Errorf(...) }`
EncCheckTargets ==
    LET reqTargets == enc.in.parity + 1 + (IF enc.in.isCopy THEN 0 ELSE enc.in.data) IN
    /\ enc.pc = "check"
    /\ enc' = IF enc.in.targetCnt < reqTargets
                THEN [enc EXCEPT !.pc = "done", !.err = <<"TooFewTargets">>]
                ELSE [enc EXCEPT !.pc = "meta"]
    /\ UNCHANGED rst
    /\ UNCHANGED exceptEC

\* `if err := ctMeta.Write(...); err != nil { return err }`
OnMetaErrGoOn(isCopy) == IF isCopy THEN "copies" ELSE "slices"
OnMetaErr(isCopy) == "done"

\* save the metadata before encoding the object
EncWriteMeta ==
    /\ enc.pc = "meta"
    /\ enc' = IF enc.in.metaFails
                THEN [enc EXCEPT !.pc = OnMetaErr(enc.in.isCopy), !.err = <<"MetaWrite">>]
                ELSE [enc EXCEPT !.pc = IF enc.in.isCopy THEN "copies" ELSE "slices",
                                 !.metaOnDisk = TRUE]
    /\ UNCHANGED rst
    /\ UNCHANGED exceptEC

\* what goes to a peer: slice 0 is the replica; metaSaved records whether the local
\* metadata was on disk when it was sent
Sent(i) == [slice |-> i, to |-> i, metaSaved |-> enc.metaOnDisk]

\* createCopies: one writeRemote of the replica to the `parity` next HRW targets; an
\* error (no HRW list, no file handle, failed send) makes encode clean up
EncCreateCopies ==
    /\ enc.pc = "copies"
    /\ enc' = IF enc.in.genFails
                THEN [enc EXCEPT !.pc = "cleanup"]
                ELSE [enc EXCEPT
                        !.pc = IF enc.in.sendFails \cap (1..enc.in.parity) # {}
                                 THEN "cleanup" ELSE "done",
                        !.sent = {[Sent(0) EXCEPT !.to = t] :
                                     t \in (1..enc.in.parity) \ enc.in.sendFails}]
    /\ UNCHANGED rst
    /\ UNCHANGED exceptEC

\* sendSlices up to the goroutines: the HRW list and the slices; an error here makes
\* encode clean up
EncGenerateSlices ==
    /\ enc.pc = "slices"
    /\ enc' = IF enc.in.genFails
                THEN [enc EXCEPT !.pc = "cleanup"]
                ELSE [enc EXCEPT !.pc = "send", !.left = 1..(enc.in.data + enc.in.parity)]
    /\ UNCHANGED rst
    /\ UNCHANGED exceptEC

\* copySlice(i - 1): writeRemote of slice i to targets[i]; its error goes to ch
EncCopySlice(i) ==
    /\ enc.pc = "send"
    /\ i \in enc.left
    /\ enc' = [enc EXCEPT !.left = @ \ {i},
                          !.sent = IF i \in enc.in.sendFails THEN @ ELSE @ \cup {Sent(i)}]
    /\ UNCHANGED rst
    /\ UNCHANGED exceptEC

\* wg.Wait(); an error in ch is logged; `return slices, nil`, and encode returns nil
EncSlicesSent ==
    /\ enc.pc = "send"
    /\ enc.left = {}
    /\ enc' = [enc EXCEPT !.pc = "done"]
    /\ UNCHANGED rst
    /\ UNCHANGED exceptEC

\* cleanup: remove the local metafile, broadcast the delete request; encode returns nil
EncCleanup ==
    /\ enc.pc = "cleanup"
    /\ enc' = [enc EXCEPT !.pc = "done", !.metaOnDisk = FALSE, !.delSent = TRUE]
    /\ UNCHANGED rst
    /\ UNCHANGED exceptEC

\* putJogger.ec, case ActSplit: `err = c.encode(req)`, then
\* `c.parent.stats.updateEncodeTime(time.Since(req.tm), err != nil)`: the failed flag
\* the statistic of a finished request is given
EncodeFailedStat == enc.err # NoErr

ENext ==
    \/ EncCheckTargets
    \/ EncWriteMeta
    \/ EncCreateCopies
    \/ EncGenerateSlices
    \/ \E i \in 1..(MaxData + MaxParity) : EncCopySlice(i)
    \/ EncSlicesSent
    \/ EncCleanup

\* ---- getJogger.restore
Peers == {"p1", "p2", "p3"}
\* the metadata of the object under each checksum: "a" is erasure encoded, "b" is
\* replicated
MetaOf(ck) ==
    IF ck = "a" THEN [data |-> MaxData, parity |-> 1, isCopy |-> FALSE]
    ELSE [data |-> 1, parity |-> 1, isCopy |-> TRUE]
\* what a peer answers to the metadata request: nothing, or its metafile; the slice
\* ID of a metafile is whatever its file holds: 0 with the full object, a slice's
\* number, or a number beyond the object's slices
NoReply == [cksum |-> "", sliceID |-> 0]
Replies ==
    {NoReply} \cup {[cksum |-> "a", sliceID |-> i] : i \in 0..(MaxData + 2)}
    \cup {[cksum |-> "b", sliceID |-> 0]}
\* a request: the bucket's EC flag, the peers' answers, the peers whose slice or
\* replica arrives (the others' SGLs stay empty), the local write that fails, and
\* whether glog.V(4) is on
RstInputs ==
    [ecEnabled : BOOLEAN, replies : [Peers -> Replies], arrive : SUBSET Peers,
     fail : {"none", "save", "persist", "meta", "send"}, verbose : BOOLEAN]

RstStart(in) ==
    [in |-> in, pc |-> "meta", err |-> NoErr, chkVal |-> "", nodes |-> {},
     requested |-> {}, got |-> {}, empty |-> {}, disk |-> {}]

RInit == rst \in {RstStart(in) : in \in RstInputs}

\* no request is looked at
EncIdle ==
    [EncStart([isCopy |-> FALSE, data |-> 1, parity |-> 1, targetCnt |-> 2,
               metaFails |-> FALSE, genFails |-> FALSE, sendFails |-> {}])
     EXCEPT !.pc = "done"]
RstIdle ==
    [RstStart([ecEnabled |-> FALSE, replies |-> [p \in Peers |-> NoReply],
               arrive |-> {}, fail |-> "none", verbose |-> FALSE]) EXCEPT !.pc = "done"]
EInitNone == enc = EncIdle /\ rst = RstIdle

\* the number of peers that answered with checksum ck
ChkCount(ck) == Cardinality({p \in Peers : rst.in.replies[p].cksum = ck})

\* the orders in which `for _, node := range tmap` may visit the peers
TmapOrders == {o \in [1..Cardinality(Peers) -> Peers] : \A p \in Peers : \E i \in DOMAIN o : o[i] = p}

\* `if cnt > chkMax`
BeatsAlways(cnt, chkMax) == TRUE
Beats(cnt, chkMax) == cnt > chkMax

\* requestMeta's loop over the writers, from the i-th peer of the order on: a peer
\* whose SGL is empty is skipped; chk counts the checksums, chkMax and chkVal follow
\* the count that beats the maximum so far; metas are the peers whose metadata was read
RECURSIVE MetaScan(_, _, _, _)
MetaScan(replies, order, i, acc) ==
    IF i > Len(order) THEN acc
    ELSE LET r == replies[order[i]] IN
         IF r = NoReply THEN MetaScan(replies, order, i + 1, acc)
         ELSE LET cnt == acc.chk[r.cksum] + 1
                  next == [chk    |-> [acc.chk EXCEPT ![r.cksum] = cnt],
                           metas  |-> acc.metas \cup {order[i]},
                           chkMax |-> IF Beats(cnt, acc.chkMax) THEN cnt ELSE acc.chkMax,
                           chkVal |-> IF Beats(cnt, acc.chkMax) THEN r.cksum
                                      ELSE acc.chkVal]
              IN  MetaScan(replies, order, i + 1, next)

ScanStart == [chk |-> [ck \in {"a", "b"} |-> 0], metas |-> {}, chkMax |-> 0, chkVal |-> ""]

\* restore up to requestMeta's return: ErrorECDisabled; the error of a failed
\* broadcast; ErrorNoMetafile when chkMax == 0; else chkVal and the peers whose
\* metadata carries it
RequestMeta(order) ==
    LET sc == MetaScan(rst.in.replies, order, 1, ScanStart) IN
    /\ rst.pc = "meta"
    /\ rst' = IF ~rst.in.ecEnabled
                THEN [rst EXCEPT !.pc = "done", !.err = <<"ECDisabled">>]
              ELSE IF rst.in.fail = "send"
                THEN [rst EXCEPT !.pc = "done", !.err = <<"SendMeta">>]
              ELSE IF sc.chkMax = 0
                THEN [rst EXCEPT !.pc = "done", !.err = <<"NoMetafile">>]
              ELSE [rst EXCEPT !.pc = "dispatch", !.chkVal = sc.chkVal,
                               !.nodes = {p \in sc.metas :
                                            rst.in.replies[p].cksum = sc.chkVal}]
    /\ UNCHANGED enc
    /\ UNCHANGED exceptEC

\* `if len(nodes) < meta.Data { return fmt.Errorf("cannot restore: ...") }`
TooFewSlicesNever(n, data) == FALSE
TooFewSlices(n, data) == n < data

\* restore after requestMeta: replicated or encoded, or too many slices missing
RstDispatch ==
    LET meta == MetaOf(rst.chkVal) IN
    /\ rst.pc = "dispatch"
    /\ rst' = IF meta.isCopy THEN [rst EXCEPT !.pc = "replica"]
              ELSE IF TooFewSlices(Cardinality(rst.nodes), meta.data)
                THEN [rst EXCEPT !.pc = "done", !.err = <<"TooManySlicesMissing">>]
              ELSE [rst EXCEPT !.pc = "slices"]
    /\ UNCHANGED enc
    /\ UNCHANGED exceptEC

\* restoreReplicated up to the save: read the replica from the nodes one by one
RstReadReplica ==
    /\ rst.pc = "replica"
    /\ rst' = IF rst.nodes \cap rst.in.arrive = {}
                THEN [rst EXCEPT !.pc = "done", !.err = <<"NoReplica">>,
                                 !.requested = rst.nodes]
                ELSE [rst EXCEPT !.pc = "save", !.requested = rst.nodes,
                                 !.got = {0}]
    /\ UNCHANGED enc
    /\ UNCHANGED exceptEC

\* `slices := make([]*slice, sliceCnt, sliceCnt)` and `slices[v.SliceID-1] = writer`:
\* the index expression is within the list
InList(sliceID, sliceCnt) == sliceID - 1 >= 0 /\ sliceID - 1 < sliceCnt

\* requestSlices: every node is asked for its slice; an invalid slice ID is logged
\* and the loop goes on; `slices[v.SliceID-1] = writer` panics on an index outside
\* the list, and otherwise keeps, of the nodes with one slice ID, the writer of the
\* last one in map order (win); a position is filled when its writer's slice arrives
\* and empty otherwise
RstRequestSlices(win) ==
    LET sliceCnt == MetaOf(rst.chkVal).data + MetaOf(rst.chkVal).parity IN
    /\ rst.pc = "slices"
    /\ win \subseteq rst.nodes
    /\ \A p \in rst.nodes :
          Cardinality({q \in win : rst.in.replies[q].sliceID = rst.in.replies[p].sliceID}) = 1
    /\ rst' = IF \E p \in rst.nodes : ~InList(rst.in.replies[p].sliceID, sliceCnt)
                THEN [rst EXCEPT !.pc = "panic"]
                ELSE [rst EXCEPT !.pc = "rebuild", !.requested = rst.nodes,
                          !.got = {rst.in.replies[p].sliceID : p \in win \cap rst.in.arrive},
                          !.empty = {rst.in.replies[p].sliceID : p \in win \ rst.in.arrive}]
    /\ UNCHANGED enc
    /\ UNCHANGED exceptEC

\* stream.Reconstruct(readers, writers) of the reedsolomon library: it needs `data`
\* readers with a slice, and fails on a reader that has nothing to read
Reconstructs(filled, readers, data) == Cardinality(filled) >= data /\ readers = filled

\* restoreMainObj up to the save: an empty SGL is dropped from the readers only under
\* glog.V(4)
RstReconstruct ==
    LET readers == IF rst.in.verbose THEN rst.got ELSE rst.got \cup rst.empty IN
    /\ rst.pc = "rebuild"
    /\ rst' = IF Reconstructs(rst.got, readers, MetaOf(rst.chkVal).data)
                THEN [rst EXCEPT !.pc = "save"]
                ELSE [rst EXCEPT !.pc = "done", !.err = <<"Reconstruct">>]
    /\ UNCHANGED enc
    /\ UNCHANGED exceptEC

\* SaveReaderSafe(tmpFQN, mainFQN), LOM.Persist, SaveReader(metaFQN), each returning
\* its error; left is what a failed SaveReaderSafe leaves of its workfile
RstSave(left) ==
    /\ rst.pc = "save"
    /\ left \in {{}, {"work"}}
    /\ rst.in.fail # "save" => left = {}
    /\ rst' = CASE rst.in.fail = "save" ->
                     [rst EXCEPT !.pc = "done", !.err = <<"Save">>, !.disk = left]
                [] rst.in.fail = "persist" ->
                     [rst EXCEPT !.pc = "done", !.err = <<"Persist">>, !.disk = {"obj"}]
                [] rst.in.fail = "meta" ->
                     [rst EXCEPT !.pc = "done", !.err = <<"SaveMeta">>, !.disk = {"obj"}]
                [] OTHER ->
                     [rst EXCEPT !.pc = "done", !.disk = {"obj", "meta"}]
    /\ UNCHANGED enc
    /\ UNCHANGED exceptEC

RNext ==
    \/ \E order \in TmapOrders : RequestMeta(order)
    \/ RstDispatch
    \/ RstReadReplica
    \/ \E win \in SUBSET Peers : RstRequestSlices(win)
    \/ RstReconstruct
    \/ \E left \in {{}, {"work"}} : RstSave(left)

(***************************************************************************)
(* Part VI.  The housekeeper (package hk), as the specification describes  *)
(* it and as its tests and XactDemandBase use it                           *)
(***************************************************************************)

\* ---- bound of the housekeeper model: the clock stops here
MaxHkTime == 4

\* the names the callbacks are registered under
HkNames == {"foo", "bar"}
\* the intervals a callback returns, and the initial intervals (0: none given)
HkIntervals == 1..2
HkInitials == 0..2

\* the housekeeper's last step: what was called, and whether the callback ran
NoHkCall == [op |-> "none", name |-> "foo", d |-> 0, ret |-> 0, ran |-> FALSE]

\* on: the registered names; next: when each is due; armedAt, wait: when each was
\* registered or last fired, and the interval it was given then (initial or returned);
\* gone: the names unregistered and not registered again
HInit ==
    hk = [now |-> 0, on |-> {}, next |-> [n \in HkNames |-> 0],
          armedAt |-> [n \in HkNames |-> 0], wait |-> [n \in HkNames |-> 0],
          gone |-> {}, call |-> NoHkCall]

\* the time of the next fire of a callback that ran at t and returned interval
RearmAtOnce(t, interval) == t
Rearm(t, interval) == t + interval

\* the registry without a name
WithoutNone(on, n) == on
Without(on, n) == on \ {n}

\* Register(name, f, initialInterval...): without an initial interval the callback
\* runs at once and is due again after what it returned (ret); with one it is due
\* after the initial interval
HkRegister(n, d, ret) ==
    /\ n \notin hk.on
    /\ d # 0 => ret = 1
    /\ hk' = [hk EXCEPT !.on = @ \cup {n},
                        !.next[n] = IF d = 0 THEN Rearm(hk.now, ret) ELSE hk.now + d,
                        !.armedAt[n] = hk.now,
                        !.wait[n] = IF d = 0 THEN ret ELSE d,
                        !.gone = @ \ {n},
                        !.call = [op |-> "register", name |-> n, d |-> d,
                                  ret |-> IF d = 0 THEN ret ELSE 0, ran |-> d = 0]]
    /\ UNCHANGED exceptHk

\* the timer fires a callback that is due; the callback returns its next interval
HkFire(n, ret) ==
    /\ n \in hk.on
    /\ hk.now >= hk.next[n]
    /\ hk' = [hk EXCEPT !.next[n] = Rearm(hk.now, ret),
                        !.armedAt[n] = hk.now,
                        !.wait[n] = ret,
                        !.call = [op |-> "fire", name |-> n, d |-> 0, ret |-> ret,
                                  ran |-> TRUE]]
    /\ UNCHANGED exceptHk

\* Unregister(name): the name leaves the registry, if it is there
HkUnregister(n) ==
    /\ hk' = [hk EXCEPT !.on = Without(@, n),
                        !.gone = @ \cup {n},
                        !.call = [op |-> "unregister", name |-> n, d |-> 0, ret |-> 0,
                                  ran |-> FALSE]]
    /\ UNCHANGED exceptHk

\* the clock advances up to the next callback that is due
HkAdvance ==
    /\ hk.now < MaxHkTime
    /\ \A n \in hk.on : hk.now < hk.next[n]
    /\ hk' = [hk EXCEPT !.now = @ + 1, !.call = [NoHkCall EXCEPT !.op = "advance"]]
    /\ UNCHANGED exceptHk

HNext ==
    \/ \E n \in HkNames, d \in HkInitials, ret \in HkIntervals : HkRegister(n, d, ret)
    \/ \E n \in HkNames, ret \in HkIntervals : HkFire(n, ret)
    \/ \E n \in HkNames : HkUnregister(n)
    \/ HkAdvance

(***************************************************************************)
(* Part VII: the EC joggers of one mountpath (package ec)                  *)
(***************************************************************************)
\* the requests sent to the getJogger, the capacity of its work channel and of its
\* semaphore of concurrent restores
MaxGetReq == 4
MaxWorkCh == 2
SemaCap == 2

\* the actions of a request to the getJogger: ActRestore and anything else
GetActions == {"restore", "other"}

\* pending: the xaction's pending counter; workCh: the queued requests; pc: where
\* run() stands with the request it took (act); restoring: the restore goroutines
\* inside c.restore; finishing: those past c.restore that still hold the semaphore;
\* sema: the slots taken; sent: the requests sent so far; jobID: c.jobID; jobs: the
\* keys of c.jobs; stage: where the restore goroutine of each job stands ("none",
\* "restore", "release", "done"); failed: the jobs whose restore returned an error;
\* released: the semaphore slots each job has given back
JobIDs == 1..MaxGetReq
GJInit ==
    gj = [pending |-> 0, workCh |-> <<>>, pc |-> "recv", act |-> "restore",
          restoring |-> 0, finishing |-> 0, sema |-> 0, sent |-> 0,
          jobID |-> 0, jobs |-> {}, stage |-> [j \in JobIDs |-> "none"],
          failed |-> {}, released |-> [j \in JobIDs |-> 0]]

\* a request is sent to the jogger: the xaction counts it as pending and queues it
GjDispatch(act) ==
    /\ gj.sent < MaxGetReq
    /\ Len(gj.workCh) < MaxWorkCh
    /\ gj' = [gj EXCEPT !.pending = @ + 1, !.workCh = Append(@, act), !.sent = @ + 1]
    /\ UNCHANGED <<pj, exceptJog>>

\* run(): `case req := <-c.workCh`, then c.ec(req) up to its switch; any action but
\* ActRestore is answered with an error in place
GjRecv ==
    /\ gj.pc = "recv"
    /\ gj.workCh # <<>>
    /\ gj' = [gj EXCEPT !.workCh = Tail(@), !.act = Head(gj.workCh),
                        !.pc = IF Head(gj.workCh) = "restore" THEN "sema" ELSE "dec"]
    /\ UNCHANGED <<pj, exceptJog>>

\* ec(), case ActRestore: `c.sema <- struct{}{}`, register the job, `go restore(req, cb)`,
\* and return
\* a send on the semaphore blocks while every slot is taken
SemaBlocksNever(taken) == FALSE
SemaBlocks(taken) == taken >= SemaCap

GjStartRestore ==
    /\ gj.pc = "sema"
    /\ ~SemaBlocks(gj.sema)
    /\ gj' = [gj EXCEPT !.sema = @ + 1, !.restoring = @ + 1, !.pc = "dec",
                        !.jobID = @ + 1, !.jobs = @ \cup {gj.jobID + 1},
                        !.stage[gj.jobID + 1] = "restore"]
    /\ UNCHANGED <<pj, exceptJog>>

\* run(): c.parent.DecPending() after c.ec(req) has returned
GjDecPending ==
    /\ gj.pc = "dec"
    /\ gj' = [gj EXCEPT !.pending = @ - 1, !.pc = "recv"]
    /\ UNCHANGED <<pj, exceptJog>>

\* a restore goroutine: c.restore(req) returns (ok or not), the stats are updated,
\* cb(err) deletes the job from c.jobs and reports err on the request's channel
GjRestoreReturns(j, ok) ==
    /\ gj.stage[j] = "restore"
    /\ gj' = [gj EXCEPT !.restoring = @ - 1, !.finishing = @ + 1,
                        !.jobs = @ \ {j}, !.stage[j] = "release",
                        !.failed = IF ok THEN @ ELSE @ \cup {j}]
    /\ UNCHANGED <<pj, exceptJog>>

\* a restore goroutine: `<-c.sema`
GjReleaseSema(j) ==
    /\ gj.stage[j] = "release"
    /\ gj' = [gj EXCEPT !.finishing = @ - 1, !.sema = @ - 1, !.stage[j] = "done",
                        !.released[j] = @ + 1]
    /\ UNCHANGED <<pj, exceptJog>>

\* run(): `case <-c.stopCh`
GjStop ==
    /\ gj.pc = "recv"
    /\ gj' = [gj EXCEPT !.pc = "stopped"]
    /\ UNCHANGED <<pj, exceptJog>>

GJNext ==
    \/ \E act \in GetActions : GjDispatch(act)
    \/ GjRecv
    \/ GjStartRestore
    \/ GjDecPending
    \/ \E j \in JobIDs, ok \in BOOLEAN : GjRestoreReturns(j, ok)
    \/ \E j \in JobIDs : GjReleaseSema(j)
    \/ GjStop

\* `const putBatchSize = 8`
putBatchSize == 8

\* the PUT/DEL requests sent to the putJogger, and the capacities of its channels
MaxPuts == 10
MaxPutCh == 2
MaxXactCh == 1

\* putCh, xactCh: the queued high- and low-priority requests; pc: the select run()
\* stands at; putsDone: run()'s counter; sent: the PUT/DEL requests sent so far;
\* streak: the high-priority requests processed in a row while a low-priority one
\* waited; viaSecond: those of the streak that the second select picked
PJInit ==
    pj = [putCh |-> 0, xactCh |-> 0, pc |-> "first", putsDone |-> 0, sent |-> 0,
          streak |-> 0, viaSecond |-> 0, xactDone |-> 0]

\* a PUT or DEL request is queued
PjSendPut ==
    /\ pj.sent < MaxPuts
    /\ pj.putCh < MaxPutCh
    /\ pj' = [pj EXCEPT !.putCh = @ + 1, !.sent = @ + 1]
    /\ UNCHANGED <<gj, exceptJog>>

\* the ec-encode xaction queues an object
PjSendXact ==
    /\ pj.xactCh < MaxXactCh
    /\ pj.xactDone + pj.xactCh < MaxPuts
    /\ pj' = [pj EXCEPT !.xactCh = @ + 1]
    /\ UNCHANGED <<gj, exceptJog>>

\* `if putsDone < putBatchSize { continue }`
BatchGoesOnEver(putsDone) == TRUE
BatchGoesOn(putsDone) == putsDone < putBatchSize

\* the record after c.processRequest(req) of a request taken from putCh
PutProcessed(second) ==
    [pj EXCEPT !.putCh = @ - 1,
               !.streak = IF pj.xactCh > 0 THEN @ + 1 ELSE 0,
               !.viaSecond = IF pj.xactCh = 0 THEN 0
                             ELSE IF second THEN @ + 1 ELSE @]

\* the first select, `case req := <-c.putCh`
PjFirstPut ==
    /\ pj.pc = "first"
    /\ pj.putCh > 0
    /\ pj' = IF BatchGoesOn(pj.putsDone + 1)
               THEN [PutProcessed(FALSE) EXCEPT !.putsDone = @ + 1]
               ELSE [PutProcessed(FALSE) EXCEPT !.putsDone = 0, !.pc = "second"]
    /\ UNCHANGED <<gj, exceptJog>>

\* the first select, `default:` (nothing is queued), then `putsDone = 0`
PjFirstDefault ==
    /\ pj.pc = "first"
    /\ pj.putCh = 0
    /\ pj' = [pj EXCEPT !.putsDone = 0, !.pc = "second"]
    /\ UNCHANGED <<gj, exceptJog>>

\* the second select, `case req := <-c.putCh`: select picks any case that is ready
PjSecondPut ==
    /\ pj.pc = "second"
    /\ pj.putCh > 0
    /\ pj' = [PutProcessed(TRUE) EXCEPT !.pc = "first"]
    /\ UNCHANGED <<gj, exceptJog>>

\* the second select, `case req := <-c.xactCh`
PjSecondXact ==
    /\ pj.pc = "second"
    /\ pj.xactCh > 0
    /\ pj' = [pj EXCEPT !.xactCh = @ - 1, !.xactDone = @ + 1, !.streak = 0,
                        !.viaSecond = 0, !.pc = "first"]
    /\ UNCHANGED <<gj, exceptJog>>

\* either select, `case <-c.stopCh`
PjStop ==
    /\ pj.pc \in {"first", "second"}
    /\ pj' = [pj EXCEPT !.pc = "stopped"]
    /\ UNCHANGED <<gj, exceptJog>>

PJNext ==
    \/ PjSendPut
    \/ PjSendXact
    \/ PjFirstPut
    \/ PjFirstDefault
    \/ PjSecondPut
    \/ PjSecondXact
    \/ PjStop

JInit == GJInit /\ PJInit

(***************************************************************************)
(* Part VIII: getJogger.uploadRestoredSlices                               *)
(***************************************************************************)
\* data + parity slices of the object, its parity slices, and the targets of the
\* HRW list that hold no slice
UplSliceCnt == 4
UplParity == 2
MaxEmptyNodes == 3

EmptyNodeNames == <<"e1", "e2", "e3", "e4">>

\* sgls: the positions (from 0) whose SGL restoreMainObj allocated, i.e. the slices it
\* reconstructed; emptyNodes: the HRW targets without a slice; t: the target the loop
\* is at; idx: the loop's slice index; sent: what writeRemote was given; pc: "loop",
\* "done", or "panic" after an index out of range
UplStart(sg, n) ==
    [sgls |-> sg, emptyNodes |-> SubSeq(EmptyNodeNames, 1, n), t |-> 1, idx |-> 0,
     sent |-> {}, pc |-> "loop"]

UplInputs ==
    {UplStart(sg, n) : sg \in {x \in SUBSET (0..(UplSliceCnt - 1)) :
                                   Cardinality(x) <= UplParity},
                       n \in 0..MaxEmptyNodes}

UplIdle == [UplStart({}, 0) EXCEPT !.pc = "done"]

\* `for idx < len(sgls) && sgls[idx] == nil { idx++ }`
RECURSIVE SkipNil(_, _)
SkipNil(sg, idx) ==
    IF idx < UplSliceCnt /\ idx \notin sg THEN SkipNil(sg, idx + 1) ELSE idx

\* one pass of `for _, tgt := range emptyNodes`: skip the nil SGLs; past the end of
\* the list, `sgls[idx].Free()`; else send sgls[idx] with SliceID idx + 1 to tgt
UplIter ==
    LET idx == SkipNil(upl.sgls, upl.idx)
        tgt == upl.emptyNodes[upl.t]
    IN
    /\ upl.pc = "loop"
    /\ upl.t <= Len(upl.emptyNodes)
    /\ upl' = IF idx >= UplSliceCnt
                THEN [upl EXCEPT !.idx = idx, !.pc = "panic"]
                ELSE [upl EXCEPT !.idx = idx, !.t = @ + 1,
                                 !.sent = @ \cup {[tgt |-> tgt, id |-> idx + 1, pos |-> idx]}]
    /\ UNCHANGED exceptUpl

\* `return nil` after the last target
UplReturn ==
    /\ upl.pc = "loop"
    /\ upl.t > Len(upl.emptyNodes)
    /\ upl' = [upl EXCEPT !.pc = "done"]
    /\ UNCHANGED exceptUpl

UNext ==
    \/ UplIter
    \/ UplReturn

(***************************************************************************)
(* Part IX.  fs.WalkBck, fs.Walk's error callback, XactBase.Abort          *)
(***************************************************************************)

\* ---- fs.WalkBck
\* the mountpaths of Mountpaths.Get(), the object names, and the size of a
\* mountpath's channel (mpathQueueSize in the code)
NumMpaths == 2
MaxName == 3
QueueCap == 1
WalkMpaths == 1..NumMpaths
Names == 1..MaxName
\* what a sorted walk of one mountpath emits: object names in ascending order
AscSeqs ==
    {s \in UNION {[1..n -> Names] : n \in 0..MaxName} :
        \A i \in 1..(Len(s) - 1) : s[i] < s[i + 1]}
\* a call: the files of each mountpath, the mountpaths whose FQNs ParseFQN rejects,
\* the name on which the user callback returns an error and the name on which
\* ValidateCallback or the walk itself does (0: none)
WbInputs ==
    [dir : [WalkMpaths -> AscSeqs], lost : SUBSET WalkMpaths,
     cbFailAt : 0..MaxName, walkFailAt : 0..MaxName]

WbStart(in) ==
    [in |-> in, left |-> in.dir, ch |-> [m \in WalkMpaths |-> <<>>],
     closed |-> [m \in WalkMpaths |-> FALSE], wpc |-> [m \in WalkMpaths |-> "walk"],
     mpc |-> "init", mi |-> 1, cur |-> 1, h |-> {}, out |-> <<>>,
     cancelled |-> FALSE, err |-> NoErr, returned |-> FALSE]
WbIdle ==
    [WbStart([dir |-> [m \in WalkMpaths |-> <<>>], lost |-> {}, cbFailAt |-> 0,
              walkFailAt |-> 0])
     EXCEPT !.wpc = [m \in WalkMpaths |-> "done"], !.closed = [m \in WalkMpaths |-> TRUE],
            !.mpc = "done", !.returned = TRUE, !.cancelled = TRUE]

\* errgroup.Group.Go: a function of the group returns e; the first error that is not
\* nil is kept and cancels the context
GroupExit(w, e) ==
    [w EXCEPT !.err = IF w.err = NoErr THEN e ELSE w.err,
              !.cancelled = w.cancelled \/ e # NoErr]

\* `func (h objInfos) Less(i, j int) bool { return h[i].objName < h[j].objName }`
LessFlipped(a, b) == a > b
Less(a, b) == a < b

\* heap.Push(h, objInfo{mpathIdx: i, fqn: pair.fqn, ...}) with objInfos.Push: an FQN
\* that ParseFQN rejects is not appended
HeapPush(w, m, name) ==
    IF m \in w.in.lost THEN w.h ELSE w.h \cup {[mpathIdx |-> m, objName |-> name]}

\* `pair, ok := <-mpathChs[i]; if ok { heap.Push(...) }` once the channel has an entry
\* or is closed
Receive(w, m) ==
    IF w.ch[m] # <<>>
      THEN [w EXCEPT !.ch[m] = Tail(w.ch[m]), !.h = HeapPush(w, m, Head(w.ch[m]))]
      ELSE w
CanReceive(w, m) == w.ch[m] # <<>> \/ w.closed[m]

\* the callback of a walker on its next file, no error: the second select takes the
\* send when the channel has room
WalkerSend(m) ==
    /\ wb.wpc[m] = "walk" /\ wb.left[m] # <<>>
    /\ Head(wb.left[m]) # wb.in.walkFailAt
    /\ Len(wb.ch[m]) < QueueCap
    /\ wb' = [wb EXCEPT !.left[m] = Tail(wb.left[m]),
                        !.ch[m] = Append(wb.ch[m], Head(wb.left[m]))]
    /\ UNCHANGED <<wk, xa, exceptWalk>>

\* ValidateCallback or godirwalk returns an error on the next file: Walk returns it,
\* the deferred close runs
WalkerFail(m) ==
    /\ wb.wpc[m] = "walk" /\ wb.left[m] # <<>>
    /\ Head(wb.left[m]) = wb.in.walkFailAt
    /\ wb' = GroupExit([wb EXCEPT !.wpc[m] = "done", !.closed[m] = TRUE],
                       <<"Walk", m>>)
    /\ UNCHANGED <<wk, xa, exceptWalk>>

\* `case <-ctx.Done(): return cmn.NewAbortedError(...)` in either select
WalkerAborted(m) ==
    /\ wb.wpc[m] = "walk" /\ wb.left[m] # <<>>
    /\ wb.cancelled
    /\ wb' = GroupExit([wb EXCEPT !.wpc[m] = "done", !.closed[m] = TRUE],
                       <<"Aborted", m>>)
    /\ UNCHANGED <<wk, xa, exceptWalk>>

\* the walk of the mountpath is over: Walk returns nil, the deferred close runs
WalkerDone(m) ==
    /\ wb.wpc[m] = "walk" /\ wb.left[m] = <<>>
    /\ wb' = GroupExit([wb EXCEPT !.wpc[m] = "done", !.closed[m] = TRUE], NoErr)
    /\ UNCHANGED <<wk, xa, exceptWalk>>

\* the merge goroutine's first loop: one entry of each channel in index order
MergeFirst ==
    /\ wb.mpc = "init"
    /\ CanReceive(wb, wb.mi)
    /\ wb' = [Receive(wb, wb.mi) EXCEPT
                 !.mi = wb.mi + 1,
                 !.mpc = IF wb.mi = NumMpaths THEN "pop" ELSE "init"]
    /\ UNCHANGED <<wk, xa, exceptWalk>>

\* `for h.Len() > 0 { v := heap.Pop(h); if err := opts.Callback(...) ... }`: the
\* least entry is taken and given to the callback; with an empty heap the merge
\* goroutine returns nil
MergePop ==
    /\ wb.mpc = "pop"
    /\ \/ /\ wb.h = {}
          /\ wb' = GroupExit([wb EXCEPT !.mpc = "done"], NoErr)
       \/ \E v \in wb.h :
          /\ \A u \in wb.h : ~Less(u.objName, v.objName)
          /\ wb' = IF v.objName = wb.in.cbFailAt
                     THEN GroupExit([wb EXCEPT !.mpc = "done", !.h = wb.h \ {v}],
                                    <<"Callback">>)
                     ELSE [wb EXCEPT !.h = wb.h \ {v}, !.out = Append(wb.out, v),
                                     !.cur = v.mpathIdx, !.mpc = "recv"]
    /\ UNCHANGED <<wk, xa, exceptWalk>>

\* `if pair, ok := <-mpathChs[info.mpathIdx]; ok { heap.Push(...) }`
MergeRecv ==
    /\ wb.mpc = "recv"
    /\ CanReceive(wb, wb.cur)
    /\ wb' = [Receive(wb, wb.cur) EXCEPT !.mpc = "pop"]
    /\ UNCHANGED <<wk, xa, exceptWalk>>

\* `return group.Wait()`: every function of the group has returned
WaitReturns ==
    /\ ~wb.returned
    /\ wb.mpc = "done" /\ \A m \in WalkMpaths : wb.wpc[m] = "done"
    /\ wb' = [wb EXCEPT !.returned = TRUE, !.cancelled = TRUE]
    /\ UNCHANGED <<wk, xa, exceptWalk>>

WBNext ==
    \/ \E m \in WalkMpaths : WalkerSend(m)
    \/ \E m \in WalkMpaths : WalkerFail(m)
    \/ \E m \in WalkMpaths : WalkerAborted(m)
    \/ \E m \in WalkMpaths : WalkerDone(m)
    \/ MergeFirst
    \/ MergePop
    \/ MergeRecv
    \/ WaitReturns

\* ---- fs.Walk and errCallbackWrapper.PathErrToAction
errThreshold == 1000
\* the content-type directories one Walk goes through
NumFqns == 2
ErrKinds == {"bucket", "object", "other"}

\* PathErrToAction: what godirwalk is told to do with an error of the kind, the
\* counter being what it is
PathErrToAction(kind, counter) ==
    IF kind = "bucket" THEN "Halt"
    ELSE IF counter > errThreshold THEN "Halt"
    ELSE IF kind = "object" THEN "SkipNode"
    ELSE "Halt"

WkStart == [fqn |-> 1, counter |-> 0, skipped |-> 0, done |-> FALSE, err |-> NoErr]

\* `for _, fqn := range fqns`: the walk of one directory is over
NextFqn(w) == [w EXCEPT !.fqn = w.fqn + 1, !.done = (w.fqn = NumFqns)]

\* godirwalk meets an error and asks the error callback: SkipNode goes on with the
\* walk of the directory, Halt ends it with the error, which Walk keeps
WalkPathErr(kind) ==
    /\ ~wk.done
    /\ wk' = IF PathErrToAction(kind, wk.counter) = "SkipNode"
               THEN [wk EXCEPT !.counter = wk.counter + 1, !.skipped = wk.skipped + 1]
               ELSE NextFqn([wk EXCEPT !.err = <<"Halt", kind>>])
    /\ UNCHANGED <<wb, xa, exceptWalk>>

\* godirwalk.Walk(fqn, gOpts) returns nil
WalkFqnEnds ==
    /\ ~wk.done
    /\ wk' = NextFqn(wk)
    /\ UNCHANGED <<wb, xa, exceptWalk>>

WKNext ==
    \/ \E kind \in ErrKinds : WalkPathErr(kind)
    \/ WalkFqnEnds

\* ---- XactBase.Abort
NumCallers == 3
MaxCalls == 2
MaxNow == 3
AbortCallers == 1..NumCallers

\* NewXactBase: the flag is false, the end time zero, the channel open; clock is
\* time.Now().UnixNano()
XaStart ==
    [aborted |-> FALSE, eutime |-> 0, closes |-> 0, clock |-> 1,
     pc |-> [c \in AbortCallers |-> "idle"], calls |-> [c \in AbortCallers |-> 0],
     returned |-> {}, setterBack |-> FALSE]

\* `func (xact *XactBase) Finished() bool { return xact.eutime.Load() != 0 }`
Finished == xa.eutime # 0
\* `func (xact *XactBase) Aborted() bool { return xact.aborted.Load() }`
Aborted == xa.aborted

\* `xact.aborted.CAS(false, true)`: the swap is made when the flag is false
CASAlways(flag) == TRUE
CAS(flag) == flag = FALSE

\* Abort up to its CAS: the caller that finds the flag set logs and returns
AbortCAS(c) ==
    /\ xa.pc[c] = "idle" /\ xa.calls[c] < MaxCalls
    /\ xa' = IF CAS(xa.aborted)
               THEN [xa EXCEPT !.aborted = TRUE, !.pc[c] = "swapped"]
               ELSE [xa EXCEPT !.calls[c] = xa.calls[c] + 1,
                               !.returned = xa.returned \cup {c}]
    /\ UNCHANGED <<wb, wk, exceptWalk>>

\* `xact.eutime.Store(time.Now().UnixNano())`
AbortStore(c) ==
    /\ xa.pc[c] = "swapped"
    /\ xa' = [xa EXCEPT !.eutime = xa.clock, !.pc[c] = "stored"]
    /\ UNCHANGED <<wb, wk, exceptWalk>>

\* `close(xact.abrt)`
AbortClose(c) ==
    /\ xa.pc[c] = "stored"
    /\ xa' = [xa EXCEPT !.closes = xa.closes + 1, !.pc[c] = "closed"]
    /\ UNCHANGED <<wb, wk, exceptWalk>>

\* the log line and the return of the caller that made the swap
AbortReturn(c) ==
    /\ xa.pc[c] = "closed"
    /\ xa' = [xa EXCEPT !.pc[c] = "idle", !.calls[c] = xa.calls[c] + 1,
                        !.returned = xa.returned \cup {c}, !.setterBack = TRUE]
    /\ UNCHANGED <<wb, wk, exceptWalk>>

\* time passes
XaTick ==
    /\ xa.clock < MaxNow
    /\ xa' = [xa EXCEPT !.clock = xa.clock + 1]
    /\ UNCHANGED <<wb, wk, exceptWalk>>

XANext ==
    \/ \E c \in AbortCallers : AbortCAS(c)
    \/ \E c \in AbortCallers : AbortStore(c)
    \/ \E c \in AbortCallers : AbortClose(c)
    \/ \E c \in AbortCallers : AbortReturn(c)
    \/ XaTick

WInit == wb = WbIdle /\ wk = WkStart /\ xa = XaStart

Init == DInit /\ TInit /\ NInitNone /\ GInit /\ EInitNone /\ HInit /\ JInit
        /\ upl = UplIdle /\ WInit

vars == <<tvars, dvars, nvars, gvars, evars, hvars, jvars, uvars, wvars>>

\* the two-phase transactions of the primary
SpecTxn == Init /\ [][TNext]_vars
\* the demand xaction
SpecDemand == Init /\ [][DNext]_vars

\* makeNprops on every input
InitNprops == DInit /\ TInit /\ NInit /\ GInit /\ EInitNone /\ HInit /\ JInit
              /\ upl = UplIdle /\ WInit
SpecNprops == InitNprops /\ [][NNext]_vars
\* the mountpath run-group of a target
SpecRungroup == Init /\ [][GNext]_vars

\* one EC encode request
InitEncode == DInit /\ TInit /\ NInitNone /\ GInit /\ EInit /\ rst = RstIdle /\ HInit
              /\ JInit /\ upl = UplIdle /\ WInit
SpecEncode == InitEncode /\ [][ENext]_vars
\* one EC restore request
InitRestore == DInit /\ TInit /\ NInitNone /\ GInit /\ RInit /\ enc = EncIdle /\ HInit
               /\ JInit /\ upl = UplIdle /\ WInit
SpecRestore == InitRestore /\ [][RNext]_vars

\* the housekeeper and its clients
SpecHk == Init /\ [][HNext]_vars
\* the getJogger and the putJogger of a mountpath
SpecGetJogger == Init /\ [][GJNext]_vars
SpecPutJogger == Init /\ [][PJNext]_vars
\* the upload of the restored slices, on every list of slices and of empty targets
InitUpload == DInit /\ TInit /\ NInitNone /\ GInit /\ EInitNone /\ HInit /\ JInit
              /\ upl \in UplInputs /\ WInit
SpecUpload == InitUpload /\ [][UNext]_vars
\* one WalkBck, on every content of the mountpaths and every place of an error
InitWalkBck == DInit /\ TInit /\ NInitNone /\ GInit /\ EInitNone /\ HInit /\ JInit
               /\ upl = UplIdle
               /\ wb \in {WbStart(in) : in \in WbInputs} /\ wk = WkStart /\ xa = XaStart
SpecWalkBck == InitWalkBck /\ [][WBNext]_vars
\* one Walk and the errors it meets
SpecWalk == Init /\ [][WKNext]_vars
\* the callers of Abort on one xaction
SpecAbort == Init /\ [][XANext]_vars

Next == TNext \/ DNext \/ NNext \/ GNext \/ ENext \/ RNext \/ HNext \/ GJNext \/ PJNext \/ UNext
        \/ WBNext \/ WKNext \/ XANext
Spec == SpecTxn


(***************************************************************************)
(* Properties                                                              *)
(***************************************************************************)

Done(u) == ops[u].pc = "done"
TwoPhase == {"create", "copies", "setprops", "resetprops", "rename", "copy", "ecencode"}
\* the locks an operation takes
LocksOf(u) ==
    {Held(u, ops[u].bck, SrcMode(ops[u].kind))}
    \cup (IF ops[u].kind \in {"rename", "copy"} THEN {Held(u, ops[u].bckTo, "w")} ELSE {})

\* C1: when a target answers the begin broadcast of a two-phase operation with an
\* error, the proxy broadcasts abort, returns a begin error of a target that failed,
\* holds none of its name-locks after the return, and has neither changed the BMD nor
\* started a metasync nor broadcast commit.
BeginFailureAborts ==
    \A u \in UUIDs :
        ops[u].beginErr =>
            /\ ops[u].kind \in TwoPhase
            /\ ops[u].puts = 0 /\ ops[u].syncs = 0 /\ ops[u].commitSent = 0
            /\ InFlight("bmd", u) = {}
            /\ \A t \in Targets : ttxn[t][u] \notin {"committed", "commitErr"}
            /\ Done(u) =>
                 /\ ops[u].abortSent = 1
                 /\ \E t \in Targets :
                        ops[u].err = ErrTarget("begin", t) /\ ttxn[t][u] = "none"
                 /\ \A t \in Targets : ttxn[t][u] # "begun"
                 /\ HeldBy(u) = {}

\* a rename that took both name-locks has returned the begin error of a target
BeginFailureWitness ==
    \E u \in UUIDs :
        /\ Done(u) /\ ops[u].beginErr /\ ops[u].kind = "rename"
        /\ ops[u].abortSent = 1
        /\ \E t \in Targets : ttxn[t][u] = "aborted"

\* C2: when a target answers the commit broadcast of a two-phase operation with an
\* error, after the new BMD was metasynced, the operation has rolled back and returns
\* the commit error.
CommitFailureRollsBack ==
    \A u \in UUIDs :
        (Done(u) /\ ops[u].kind \in TwoPhase /\ ops[u].commitErr /\ ops[u].syncs >= 1) =>
            /\ ops[u].undone
            /\ \E t \in Targets : ops[u].err = ErrTarget("commit", t)

\* C3 as stated: of two make-n-copies on one bucket, the second finding the first
\* holding the name-lock, exactly one returns success and the other BucketIsBusy.
TwoCopiesExactlyOneSucceeds ==
    \A u1 \in UUIDs, u2 \in UUIDs :
        (/\ u1 # u2
         /\ ops[u1].kind = "copies" /\ ops[u2].kind = "copies"
         /\ ops[u1].bck = ops[u2].bck
         /\ u1 \in ops[u2].busyWith
         /\ Done(u1) /\ Done(u2)) =>
            /\ ops[u2].err = ErrBucketIsBusy(ops[u2].bck)
            /\ ops[u1].err = NoErr

\* C3 amended: the make-n-copies that finds the name-lock held by another make-n-copies
\* returns BucketIsBusy at once and changes nothing: no begin, no BMD update, no
\* metasync, no listener, no lock; so at most one of the two returns success.
BusyCopiesChangesNothing ==
    \A u1 \in UUIDs, u2 \in UUIDs :
        (/\ u1 # u2
         /\ ops[u1].kind = "copies" /\ ops[u2].kind = "copies"
         /\ ops[u1].bck = ops[u2].bck
         /\ u1 \in ops[u2].busyWith) =>
            /\ Done(u2)
            /\ ops[u2].err = ErrBucketIsBusy(ops[u2].bck)
            /\ ops[u2].beginSent = 0 /\ ops[u2].puts = 0 /\ ops[u2].syncs = 0
            /\ ops[u2].commitSent = 0 /\ ~ops[u2].registered
            /\ \A t \in Targets : ttxn[t][u2] = "none"
            /\ HeldBy(u2) = {}
            /\ \A n \in notifs : n.uuid # u2

\* the first make-n-copies has returned success and waits for the notifications; the
\* second found the lock held and returned BucketIsBusy
BusyCopiesWitness ==
    \E u1 \in UUIDs, u2 \in UUIDs :
        /\ ops[u1].kind = "copies" /\ ops[u2].kind = "copies"
        /\ ops[u2].busyWith = {u1}
        /\ Done(u1) /\ ops[u1].err = NoErr /\ ops[u1].fin # Targets
        /\ Done(u2) /\ ops[u2].err = ErrBucketIsBusy(ops[u2].bck)

\* C4: on every bucket name at most one operation is between taking and releasing
\* the write name-lock, and none is while an operation holds it as reader.
NameLockMutex ==
    \A b \in Buckets :
        LET ws == {h \in holding : h.bck = b /\ h.mode = "w"}
            rs == {h \in holding : h.bck = b /\ h.mode = "r"}
        IN  /\ Cardinality(ws) <= 1
            /\ ws # {} => rs = {}
            /\ ws # {} => nlp[b].w
            /\ Cardinality(rs) = nlp[b].r

\* an operation holds a write name-lock taken with TryLock after its own return, a
\* create or destroy blocks in Lock on that name, and another operation was refused
NameLockMutexWitness ==
    \E u \in UUIDs, v \in UUIDs :
        /\ u # v
        /\ Done(u) /\ Held(u, ops[u].bck, "w") \in holding
        /\ \/ ops[v].pc = "lock" /\ ops[v].kind \in {"create", "destroy"}
              /\ ops[v].bck = ops[u].bck
           \/ Done(v) /\ u \in ops[v].busyWith

\* C5: make-n-copies, ec-encode, rename and copy hold their name-locks from the
\* commit broadcast on until every target has reported `finished`, their own return
\* included.
LocksHeldUntilFinished ==
    \A u \in UUIDs :
        (/\ ops[u].kind \in {"copies", "ecencode", "rename", "copy"}
         /\ ops[u].commitSent > 0
         /\ ops[u].fin # Targets) =>
            /\ LocksOf(u) \subseteq holding
            /\ \A h \in LocksOf(u) :
                   IF h.mode = "w" THEN nlp[h.bck].w ELSE nlp[h.bck].r > 0

\* an operation has returned, one target of the two has reported, the lock is held
LocksHeldWitness ==
    \E u \in UUIDs :
        /\ ops[u].kind \in {"copies", "ecencode", "rename", "copy"}
        /\ Done(u)
        /\ ops[u].fin # {} /\ ops[u].fin # Targets
        /\ LocksOf(u) \subseteq holding

\* C6: no target has received the commit of a transaction while the metasync of the
\* BMD that the transaction published is still in flight.
CommitAfterMetasync ==
    \A u \in UUIDs :
        (\E t \in Targets : ttxn[t][u] \in {"committed", "commitErr"}) =>
            InFlight("bmd", u) = {}

\* a transaction that published a BMD has been committed by the targets while the
\* metasync of another transaction is still in flight
CommitAfterMetasyncWitness ==
    \E u \in UUIDs, v \in UUIDs :
        /\ u # v
        /\ ops[u].syncs = 1
        /\ \A t \in Targets : ttxn[t][u] = "committed"
        /\ InFlight("bmd", v) # {}

PendingImpliesOpen ==
    (~stopped /\ pending > 0) => ~ticksClosed

\* C9: the housekeeper closes the idle channel only when pending is 0 and no call
\* was made for the idle duration (checked for the ticks that fire while no call is
\* in progress).
IdleClosesOnlyWhenIdle ==
    (closedBy.by = "tick" /\ closedBy.quiet) => (closedBy.pending = 0 /\ closedBy.idle)

\* C10 as stated: the tick that closes the idle channel is at least the second
\* consecutive tick that observed the xaction idle (checked for the ticks that fire
\* while nothing is pending and no call is in progress).
ClosesOnSecondIdleTick ==
    (closedBy.by = "tick" /\ closedBy.quiet /\ closedBy.pending = 0) =>
        closedBy.idleTicks >= 2

\* C10 amended: the tick closes the idle channel only when the deadline has passed:
\* more than the idle duration after the idle timer was last started (construction,
\* pending back to 0, Renew with pending 0); it may be the first idle tick.
TickClosesOnlyPastDeadline ==
    closedBy.by = "tick" => closedBy.timerRan

\* a tick closed the channel as the first tick that observed the xaction idle
FirstIdleTickClosesWitness ==
    /\ closedBy.by = "tick"
    /\ closedBy.idleTicks = 1
    /\ closedBy.pending = 0
    /\ closedBy.quiet
    /\ closedBy.timerRan

\* C11: when a target fails the commit of create-bucket(b), the operation rolls back
\* and returns the commit error of a target that failed; the rollback step leaves the
\* primary's BMD without b and hands that BMD, one version up, to metasync for every
\* target.
CreateCommitFailureUndone ==
    /\ [](\A u \in UUIDs :
            (Done(u) /\ ops[u].kind = "create" /\ ops[u].commitErr) =>
                /\ ops[u].undone
                /\ \E t \in Targets :
                       ops[u].err = ErrTarget("commit", t) /\ ttxn[t][u] = "commitErr")
    /\ [][\A u \in UUIDs :
            (ops[u].kind = "create" /\ ops[u].pc = "undo" /\ ops'[u].pc = "done") =>
                /\ Present(bmd, ops[u].bck)
                /\ ~Present(bmd', ops[u].bck)
                /\ bmd'.version = bmd.version + 1
                /\ Sync("bmd", bmd'.version, 0) \subseteq msgs']_vars

\* a create-bucket has returned a target's commit error, the bucket is gone from the
\* primary's BMD and the metasync of that BMD is on its way to a target
CreateUndoneWitness ==
    \E u \in UUIDs :
        /\ Done(u) /\ ops[u].kind = "create" /\ ops[u].commitErr /\ ops[u].undone
        /\ \E t \in Targets : ops[u].err = ErrTarget("commit", t)
        /\ ~Present(bmd, ops[u].bck)
        /\ \E m \in msgs : m.sid = 0 /\ m.kind = "bmd" /\ m.ver = bmd.version

\* C12: an operation that finds the name-lock of its bucket held by a conflicting
\* operation is never blocked: its locking step can be taken at once (and returns
\* BucketIsBusy).
NeverBlocksOnLock ==
    \A u \in UUIDs :
        (/\ ops[u].pc = "lock"
         /\ ArgsErr(ops[u]) = NoErr
         /\ HoldersOf(ops[u].bck) # {}
         /\ ~(SrcMode(ops[u].kind) = "r" /\ NlpNoWriter(nlp, ops[u].bck))) =>
            ENABLED AcquireLock(u, TRUE)

\* C13: a rename-bucket whose destination is its (existing) source, not refused for a
\* rebalance in progress nor for a lock held by another operation, returns
\* BucketAlreadyExists without a begin broadcast and without a change of BMD or RMD.
RenameToItselfAlreadyExists ==
    \A u \in UUIDs :
        (/\ Done(u) /\ ops[u].kind = "rename" /\ ops[u].bckTo = ops[u].bck
         /\ Present(bmd, ops[u].bck)
         /\ ops[u].busyWith \subseteq {u}
         /\ ops[u].err # <<"CannotStartRebalance">>) =>
            /\ ops[u].err = ErrBucketAlreadyExists(ops[u].bckTo)
            /\ ops[u].beginSent = 0 /\ ops[u].puts = 0 /\ ops[u].syncs = 0
            /\ ops[u].rmdVersion = 0

ECImmutableOnSetProps ==
    \A u \in UUIDs :
        (/\ Done(u) /\ ops[u].kind = "setprops" /\ ops[u].pre # {}
         /\ ops[u].bprops.ecEnabled) =>
            LET b == ops[u].bprops
                upd == ops[u].upd
                keeps == upd.ecEnabled = {} \/ upd.ecEnabled = {TRUE}
                changes == \/ upd.dataSlices # {} /\ upd.dataSlices # {b.dataSlices}
                           \/ upd.paritySlices # {} /\ upd.paritySlices # {b.paritySlices}
            IN  /\ (keeps /\ changes) =>
                      /\ ops[u].err = <<"ECImmutable">>
                      /\ ops[u].beginSent = 0 /\ ops[u].puts = 0 /\ ops[u].syncs = 0
                      /\ ops[u].commitSent = 0
                      /\ \A t \in Targets : ttxn[t][u] = "none"
                      /\ HeldBy(u) = {}
                /\ ~keeps =>
                      /\ ops[u].err # <<"ECImmutable">>
                      /\ ~ops[u].beginErr => (ops[u].err = NoErr /\ ops[u].puts = 1)

\* a set-props that changes the slices of an EC-enabled bucket has returned the
\* immutability error; the bucket's entry in the BMD is still the one it found
ECImmutableWitness ==
    \E u \in UUIDs :
        /\ Done(u) /\ ops[u].kind = "setprops" /\ ops[u].bprops.ecEnabled
        /\ ops[u].err = <<"ECImmutable">>
        /\ ops[u].upd.ecEnabled # {FALSE}
        /\ Entry(bmd, ops[u].bck) = {ops[u].bprops}

\* C16 as stated: whatever the current props, when the props after the update have
\* mirror enabled and copies = 1, makeNprops returns copies = max(cfg.Mirror.Copies, 2)
\* with mirror enabled.
MirrorOneCopyUpgradedAlways ==
    \A r \in npOut :
        LET n == Apply(npIn.bprops, npIn.upd) IN
        (r.err = NoErr /\ n.mirrorEnabled /\ n.copies = 1) =>
            /\ r.nprops.mirrorEnabled
            /\ r.nprops.copies = (IF npIn.cfg > 2 THEN npIn.cfg ELSE 2)

\* C16 amended: when the update enables mirroring on a bucket that was not mirrored
\* and leaves copies = 1, makeNprops returns copies = max(cfg.Mirror.Copies, 2) with
\* mirror enabled and asks for a remirror; when the bucket was mirrored already and
\* the props after the update have copies = 1, makeNprops returns mirror disabled and
\* copies = 1.
MirrorOneCopyUpgradedOnEnable ==
    \A r \in npOut :
        LET n == Apply(npIn.bprops, npIn.upd) IN
        (r.err = NoErr /\ n.mirrorEnabled /\ n.copies = 1) =>
            IF ~npIn.bprops.mirrorEnabled
              THEN /\ r.nprops.mirrorEnabled
                   /\ r.nprops.copies = (IF npIn.cfg > 2 THEN npIn.cfg ELSE 2)
                   /\ r.remirror
              ELSE /\ ~r.nprops.mirrorEnabled
                   /\ r.nprops.copies = 1
                   /\ ~r.remirror

\* makeNprops has enabled mirroring with copies = 1 under cfg.Mirror.Copies = 3 and
\* returned 3 copies
MirrorUpgradeWitness ==
    \E r \in npOut :
        /\ ~npIn.bprops.mirrorEnabled /\ npIn.upd.mirrorEnabled = {TRUE}
        /\ Apply(npIn.bprops, npIn.upd).copies = 1
        /\ npIn.cfg = 3
        /\ r.err = NoErr /\ r.nprops.mirrorEnabled /\ r.nprops.copies = 3

\* C19: an Enable or Disable of a mountpath that did not flip the mountpath's state,
\* or that returned an error, returns at once: it notifies no runner, starts no local
\* rebalance, calls neither t.enable() nor t.disable(), and its step leaves the
\* mountpaths, the runners and the target's registration as they were.
NoFlipNoEffect ==
    /\ [](\A p \in Callers :
            (/\ gp[p].op \in {"enable", "disable"}
             /\ ~(gp[p].flipped /\ gp[p].err = NoErr)) =>
                /\ gp[p].pc = "idle"
                /\ gp[p].visited = {} /\ ~gp[p].reb /\ ~gp[p].regCall)
    /\ [][\A p \in Callers :
            (/\ gp[p].pc = "idle" /\ gp'[p] # gp[p]
             /\ gp'[p].op \in {"enable", "disable"}
             /\ ~(gp'[p].flipped /\ gp'[p].err = NoErr)) =>
                /\ mp' = mp /\ runners' = runners /\ tEnabled' = tEnabled]_vars

\* with a runner registered, an Enable of a mountpath that is available has returned
\* (false, nil)
NoFlipWitness ==
    \E p \in Callers :
        /\ gp[p].op = "enable" /\ gp[p].mpath \in mp.available
        /\ ~gp[p].flipped /\ gp[p].err = NoErr
        /\ gp[p].pc = "idle"
        /\ runners # {}

\* C20: at most one add / remove / enable / disable mountpath call is in progress at
\* a time, and the runners do not change while a call goes through them.
MountpathOpsSerialized ==
    /\ Cardinality({p \in Callers : gp[p].pc # "idle"}) <= 1
    /\ \A p \in Callers : gp[p].visited \subseteq runners

(***************************************************************************)
(* C17: restoring an erasure-encoded object for which fewer than `data`    *)
(* slice holders are available returns an error, and no object file, no    *)
(* workfile and no metafile is left on disk; when the holders that answer  *)
(* the metadata request are already too few, no slice is requested at all. *)
(***************************************************************************)
TooFewHoldersNoRestore ==
    LET meta == MetaOf(rst.chkVal) IN
    (rst.chkVal # "" /\ ~meta.isCopy /\ rst.pc # "dispatch") =>
        /\ Cardinality(rst.nodes) < meta.data =>
              /\ rst.pc = "done"
              /\ rst.err = <<"TooManySlicesMissing">>
              /\ rst.requested = {}
              /\ rst.disk = {}
        /\ (rst.pc \in {"save", "done"}
             /\ Cardinality({rst.in.replies[p].sliceID :
                                p \in rst.nodes \cap rst.in.arrive}) < meta.data) =>
              /\ rst.pc = "done"
              /\ rst.err # NoErr
              /\ rst.disk = {}

\* an encoded object with one of its two data slices' holders answering
TooFewHoldersWitness ==
    /\ rst.pc = "done"
    /\ rst.chkVal = "a"
    /\ Cardinality(rst.nodes) = 1
    /\ rst.err = <<"TooManySlicesMissing">>

(***************************************************************************)
(* C18: encode saves the local metadata before it sends a replica or a     *)
(* slice to any target; when saving the metadata fails, encode returns     *)
(* that error and nothing has been sent.                                   *)
(***************************************************************************)
MetaSavedBeforeSend ==
    /\ \A s \in enc.sent : s.metaSaved
    /\ enc.pc \in {"copies", "slices", "send"} => enc.metaOnDisk
    /\ (enc.pc = "done" /\ enc.in.metaFails /\ enc.err # <<"TooFewTargets">>
        /\ enc # EncIdle) =>
          /\ enc.err = <<"MetaWrite">>
          /\ enc.sent = {}
          /\ ~enc.delSent
          /\ ~enc.metaOnDisk

\* encode returned after sending slices, the metadata on disk
MetaSavedWitness ==
    /\ enc.pc = "done"
    /\ ~enc.in.isCopy
    /\ Cardinality(enc.sent) >= 2
    /\ enc.metaOnDisk

(***************************************************************************)
(* C21: the target is disabled exactly when it has no available mountpath; *)
(* in particular an add or enable that makes the first mountpath available *)
(* re-enables the target: when such a call finishes it has called          *)
(* t.enable().                                                             *)
(***************************************************************************)
FirstMountpathReenables ==
    [][\A p \in Callers :
          (gp[p].pc = "check" /\ gp[p].first /\ gp'[p].pc = "idle") => gp'[p].regCall]_vars

(***************************************************************************)
(* C22: a callback registered without an initial interval runs at once on  *)
(* registration, one registered with an initial interval does not; a       *)
(* registered callback fires exactly when the interval it was last given   *)
(* (its initial interval, or what its previous run returned) has elapsed:  *)
(* not before, and the clock does not pass that time without the fire.     *)
(***************************************************************************)
HkFiresOnTime ==
    /\ [](\A n \in hk.on : hk.now <= hk.armedAt[n] + hk.wait[n])
    /\ [][LET c == hk'.call IN
            /\ c.op = "register" => (c.ran <=> c.d = 0)
            /\ c.op = "fire" => hk.now = hk.armedAt[c.name] + hk.wait[c.name]
            /\ c.ran => /\ hk'.armedAt[c.name] = hk.now
                        /\ hk'.wait[c.name] = c.ret]_vars

\* a callback registered with an initial interval has fired and fires again
HkFiresWitness ==
    /\ hk.call.op = "fire"
    /\ hk.call.name = "foo"
    /\ hk.now = 3
    /\ hk.armedAt["bar"] = 2 /\ hk.wait["bar"] = 2 /\ "bar" \in hk.on

(***************************************************************************)
(* C23: after Unregister(name) the callback of that name does not fire     *)
(* (until the name is registered again), the callbacks of the other names  *)
(* stay registered and due as they were, and unregistering a name that is  *)
(* not registered changes nothing in the registry.                         *)
(***************************************************************************)
HkUnregisterStops ==
    /\ [](hk.gone \cap hk.on = {})
    /\ [][LET c == hk'.call IN
            /\ c.ran => c.name \notin hk.gone \/ c.op = "register"
            /\ c.op = "unregister" =>
                  /\ hk'.on = hk.on \ {c.name}
                  /\ hk'.next = hk.next
                  /\ c.name \notin hk.on => hk'.on = hk.on]_vars

\* "bar" fires after "foo" was unregistered
HkUnregisterWitness ==
    /\ hk.call.op = "fire"
    /\ hk.call.name = "bar"
    /\ "foo" \in hk.gone
    /\ hk.armedAt["foo"] < hk.now

(***************************************************************************)
(* C24: per transaction the proxy broadcasts begin once, then either abort *)
(* or commit: abort only after a begin reply was an error, commit at most  *)
(* once and only after a begin without error, never both.                  *)
(***************************************************************************)
BeginThenAbortOrCommit ==
    \A u \in UUIDs :
        LET o == ops[u] IN
        /\ o.beginSent <= 1 /\ o.abortSent <= 1 /\ o.commitSent <= 1
        /\ o.abortSent = 1 => (o.beginSent = 1 /\ o.beginErr /\ o.commitSent = 0)
        /\ o.commitSent = 1 => (o.beginSent = 1 /\ ~o.beginErr /\ o.abortSent = 0)
        /\ o.beginSent = 1 => o.kind \in TwoPhase
        /\ \A t \in Targets :
               /\ ttxn[t][u] = "aborted" => o.commitSent = 0
               /\ ttxn[t][u] \in {"committed", "commitErr"} => o.abortSent = 0
        /\ (Done(u) /\ o.beginSent = 1) => o.abortSent + o.commitSent = 1

\* one transaction was aborted after its begin, another was committed
AbortOrCommitWitness ==
    \E u \in UUIDs, v \in UUIDs :
        /\ Done(u) /\ ops[u].abortSent = 1
        /\ Done(v) /\ ops[v].commitSent = 1 /\ ops[v].commitErr

LocksEventuallyReleased ==
    \A u \in UUIDs :
        (Done(u) /\ HeldBy(u) # {}) =>
            \E n \in notifs :
                /\ n.uuid = u
                /\ \A t \in n.srcs : ttxn[t][u] = "committed"

(***************************************************************************)
(* C27: each name-lock acquired by a bucket operation is released once and *)
(* only by its holder: by the operation itself on its return when          *)
(* unlockUpon is false, otherwise by the callback of its listener, never   *)
(* by both; a read lock is released with RUnlock, a write lock with        *)
(* Unlock.                                                                 *)
(***************************************************************************)
\* the locks, as acquired, that a step lets go of
Released == holding \ holding'

\* every unlock of a step releases a lock its holder took, in the mode it took it
UnlocksMatchLocks ==
    /\ \A b \in Buckets :
          /\ (nlp[b].w /\ ~nlp'[b].w) => \E h \in Released : h.bck = b /\ h.mode = "w"
          /\ nlp'[b].r < nlp[b].r =>
                /\ nlp'[b].r = nlp[b].r - 1
                /\ \E h \in Released : h.bck = b /\ h.mode = "r"
    /\ \A h \in Released :
          /\ Released = HeldBy(h.uuid)
          /\ h.mode = "w" =>
                (nlp[h.bck].w /\ ~nlp'[h.bck].w /\ nlp'[h.bck].r = nlp[h.bck].r)
          /\ h.mode = "r" =>
                /\ nlp[h.bck].r > 0 /\ nlp'[h.bck].r = nlp[h.bck].r - 1
                /\ nlp'[h.bck].w = nlp[h.bck].w

\* who releases: the listener's callback when unlockUpon, else the returning operation
UnlockedByOwner ==
    \A u \in UUIDs :
        LET cb == /\ \E n \in notifs : n.uuid = u
                  /\ \A n \in notifs' : n.uuid # u
            ret == ops[u].pc \notin {"none", "lock", "done"} /\ ops'[u].pc = "done"
        IN
        /\ cb => (ops[u].unlockUpon /\ HeldBy(u) = LocksOf(u) /\ Released = HeldBy(u))
        /\ (ret /\ ~ops'[u].unlockUpon) => (HeldBy(u) # {} /\ Released = HeldBy(u) /\ ~cb)
        /\ (ret /\ ops'[u].unlockUpon) => Released = {}
        /\ (HeldBy(u) # {} /\ Released = HeldBy(u)) => (cb \/ ret)

LocksReleasedOnceByHolder ==
    /\ [](\A u \in UUIDs :
             /\ (Done(u) /\ ~ops[u].unlockUpon) => HeldBy(u) = {}
             /\ (Done(u) /\ ops[u].unlockUpon) => ops[u].registered
             /\ ops[u].fin = Targets => HeldBy(u) = {})
    /\ [][UnlocksMatchLocks /\ UnlockedByOwner]_vars

\* the callback of a copy's listener has released the read lock of the source and
\* the write lock of the destination
CallbackReleasedWitness ==
    \E u \in UUIDs :
        /\ ops[u].kind = "copy" /\ Done(u) /\ ops[u].unlockUpon
        /\ ops[u].fin = Targets /\ HeldBy(u) = {}
        /\ \A b \in Buckets : NlpFree(nlp, b)

(***************************************************************************)
(* C28: the assertions of the BMD update never fail: from the precondition *)
(* check to the update no other operation adds or deletes the bucket, so   *)
(* the bucket a create (or the destination a rename) is about to add is    *)
(* still absent, and the bucket the other operations re-read is still      *)
(* present with the props the check saw.                                   *)
(***************************************************************************)
BmdAssertionsHold ==
    \A u \in UUIDs :
        LET o == ops[u] IN
        /\ ~o.panic /\ o.pc # "panic"
        /\ o.pc \in {"begin", "abort", "update"} =>
              /\ Entry(bmd, o.bck) = o.pre
              /\ o.kind = "create" => ~Present(bmd, o.bck)
              /\ o.kind = "rename" => (Present(bmd, o.bck) /\ ~Present(bmd, o.bckTo))
              /\ o.kind \in {"copies", "setprops", "resetprops", "copy", "ecencode"}
                    => Present(bmd, o.bck)

\* an operation has passed its BMD update while another operation on the same bucket
\* waits for the name-lock or was refused it
UpdatedWhileOtherKeptOutWitness ==
    \E u \in UUIDs, v \in UUIDs :
        /\ u # v
        /\ ops[u].kind = "create" /\ ops[u].puts = 1 /\ ops[u].pc = "wait"
        /\ ops[v].kind = "destroy" /\ ops[v].bck = ops[u].bck /\ ops[v].pc = "lock"

(***************************************************************************)
(* C29: the pending counter is decremented for a request only after the    *)
(* processing of that request has completed, so that pending == 0 implies  *)
(* that no restore is in flight.                                           *)
(***************************************************************************)
PendingCoversRestores ==
    gj.pending = 0 => gj.restoring = 0

(***************************************************************************)
(* C30: while a low-priority request waits, the putJogger processes at     *)
(* most put-batch-size consecutive high-priority requests before it        *)
(* processes a low-priority one.                                           *)
(***************************************************************************)
AtMostBatchBeforeLowPriority ==
    pj.streak <= putBatchSize

\* C30 as the code has it: while a low-priority request waits, at most
\* put-batch-size consecutive high-priority requests are taken by the first select
\* before the jogger stands at the second select, which may pick either queue; a
\* streak longer than the batch holds a request the second select picked
BatchThenSecondSelect ==
    /\ pj.putsDone < putBatchSize
    /\ pj.streak - pj.viaSecond <= putBatchSize * (pj.viaSecond + 1)
    /\ pj.streak > putBatchSize => pj.viaSecond >= 1
    /\ (pj.pc = "first" /\ pj.xactCh > 0)
          => pj.streak - pj.viaSecond < putBatchSize * (pj.viaSecond + 1)

\* the second select has picked a ninth high-priority request in a row while a
\* low-priority request waits
NinthPutWitness ==
    /\ pj.streak = putBatchSize + 1
    /\ pj.viaSecond = 1
    /\ pj.xactCh > 0

(***************************************************************************)
(* C31: the restores running at once never exceed the capacity of the      *)
(* semaphore; every restore, failed or not, gives back exactly one slot    *)
(* when it ends; the job registry holds exactly the restores that have     *)
(* started and not yet reported their result.                              *)
(***************************************************************************)
RestoresWithinSema ==
    LET running == {j \in JobIDs : gj.stage[j] = "restore"}
        holding1 == {j \in JobIDs : gj.stage[j] \in {"restore", "release"}}
    IN
    /\ Cardinality(running) <= SemaCap
    /\ gj.sema = Cardinality(holding1) /\ gj.sema <= SemaCap
    /\ gj.jobs = running
    /\ \A j \in JobIDs :
          /\ gj.released[j] = IF gj.stage[j] = "done" THEN 1 ELSE 0
          /\ j \in gj.failed => gj.stage[j] \in {"release", "done"}
          /\ gj.stage[j] # "none" <=> j <= gj.jobID

\* the semaphore is full, a third request waits for a slot, and a failed restore has
\* given its slot back before
SemaFullWitness ==
    /\ gj.pc = "sema" /\ gj.sema = SemaCap
    /\ \E j \in gj.failed : gj.stage[j] = "done"

(***************************************************************************)
(* C32: requestMeta returns NoMetafile exactly when no other target        *)
(* returned a valid metadata; otherwise the returned nodes are exactly the *)
(* responders whose checksum is the canonical one, the canonical checksum  *)
(* has the most responders, and the returned metadata carries it.          *)
(***************************************************************************)
\* requestMeta has been called and has returned
MetaReturned == rst.in.ecEnabled /\ rst.pc # "meta"
\* the peers that answered with their metadata
Responders == {p \in Peers : rst.in.replies[p] # NoReply}

\* what requestMeta returned, given that it got as far as reading the answers
MetaPlurality ==
    IF Responders = {}
      THEN rst.err = <<"NoMetafile">> /\ rst.pc = "done" /\ rst.nodes = {}
      ELSE /\ rst.err # <<"NoMetafile">>
           /\ rst.nodes = {p \in Responders : rst.in.replies[p].cksum = rst.chkVal}
           /\ rst.nodes # {}
           /\ \A ck \in {"a", "b"} : Cardinality(rst.nodes) >= ChkCount(ck)

NoMetafileIffNoResponder ==
    MetaReturned => MetaPlurality

\* C32 as the code has it: the same, for a request whose broadcast succeeded; when
\* the broadcast fails requestMeta returns that error and nothing else
NoMetafileIffNoResponderSent ==
    /\ (MetaReturned /\ rst.in.fail # "send") => MetaPlurality
    /\ (MetaReturned /\ rst.in.fail = "send")
          => (rst.err = <<"SendMeta">> /\ rst.nodes = {} /\ rst.pc = "done")

\* two peers answered with one checksum and the third with another
PluralityWitness ==
    /\ MetaReturned /\ rst.in.fail # "send"
    /\ Cardinality(rst.nodes) = 2
    /\ Responders = Peers

(***************************************************************************)
(* C33: after a restore each reconstructed slice is sent to a target of    *)
(* the HRW list that held no slice, distinct slices to distinct targets,   *)
(* each under its own slice ID in 1..data+parity, and no index outside the *)
(* list of reconstructed slices is accessed.                               *)
(***************************************************************************)
RestoredSlicesSpread ==
    /\ upl.pc # "panic"
    /\ \A x \in upl.sent :
          /\ x.id \in 1..UplSliceCnt /\ x.pos \in upl.sgls
          /\ \A y \in upl.sent : x.tgt # y.tgt => x.id # y.id
    /\ upl.pc = "done"
          => Cardinality({x.id : x \in upl.sent})
               = IF Len(upl.emptyNodes) < Cardinality(upl.sgls)
                   THEN Len(upl.emptyNodes) ELSE Cardinality(upl.sgls)

(***************************************************************************)
(* C34: when sending a replica or a slice to a peer fails during an encode *)
(* request, the request is recorded as a failure in the stats: the failed  *)
(* flag given to the encode-time statistic is true.                        *)
(***************************************************************************)
SendFailureCounted ==
    LET in == enc.in
        reqTargets == in.parity + 1 + (IF in.isCopy THEN 0 ELSE in.data)
        tried == IF in.isCopy THEN 1..in.parity ELSE 1..(in.data + in.parity)
    IN
    (/\ enc.pc = "done"
     /\ in.targetCnt >= reqTargets /\ ~in.metaFails /\ ~in.genFails
     /\ in.sendFails \cap tried # {})
      => EncodeFailedStat

(***************************************************************************)
(* C35: requestSlices never writes outside the slice list: whatever slice  *)
(* ID a canonical metadata reply carries, the position slice ID - 1 that   *)
(* is written lies within [0, data+parity-1], and two replies never claim  *)
(* the same position.                                                      *)
(***************************************************************************)
SliceWritesInList ==
    /\ rst.pc # "panic"
    /\ rst.pc = "rebuild" =>
          \A p, q \in rst.requested :
              p # q => rst.in.replies[p].sliceID # rst.in.replies[q].sliceID

(***************************************************************************)
(* C36: WalkBck always terminates; in particular, when the merge goroutine *)
(* has finished no mountpath walker remains blocked forever on its bounded *)
(* channel.  Here: there is no state in which the merge goroutine has      *)
(* returned, the context is not cancelled, and the walkers that are left   *)
(* all wait to send on a full channel.                                     *)
(***************************************************************************)
BlockedOnSend(m) ==
    /\ wb.wpc[m] = "walk" /\ wb.left[m] # <<>>
    /\ Head(wb.left[m]) # wb.in.walkFailAt
    /\ Len(wb.ch[m]) = QueueCap
WalkBckNeverStuck ==
    ~(/\ wb.mpc = "done" /\ ~wb.cancelled
      /\ \E m \in WalkMpaths : BlockedOnSend(m)
      /\ \A m \in WalkMpaths : wb.wpc[m] = "done" \/ BlockedOnSend(m))

(***************************************************************************)
(* C37: provided each walker emits its entries in ascending object-name    *)
(* order and no error occurs, WalkBck gives the callback every entry of    *)
(* every mountpath exactly once, in globally non-decreasing object-name    *)
(* order, and the heap holds at most one pending entry per mountpath.      *)
(***************************************************************************)
NoWalkError ==
    wb.in.lost = {} /\ wb.in.cbFailAt = 0 /\ wb.in.walkFailAt = 0
CalledFor(m) == SelectSeq(wb.out, LAMBDA v : v.mpathIdx = m)
MergedInOrder ==
    NoWalkError =>
      /\ \A i \in 1..(Len(wb.out) - 1) : wb.out[i].objName <= wb.out[i + 1].objName
      /\ \A m \in WalkMpaths : Cardinality({v \in wb.h : v.mpathIdx = m}) <= 1
      /\ wb.returned =>
           \A m \in WalkMpaths :
              /\ Len(CalledFor(m)) = Len(wb.in.dir[m])
              /\ \A i \in 1..Len(wb.in.dir[m]) : CalledFor(m)[i].objName = wb.in.dir[m][i]
\* two mountpaths with files whose names interleave have been merged
MergedWitness ==
    /\ wb.returned /\ NoWalkError /\ wb.in # WbIdle.in
    /\ Len(wb.out) >= 4
    /\ \E i \in 1..(Len(wb.out) - 2) :
          /\ wb.out[i].mpathIdx # wb.out[i + 1].mpathIdx
          /\ wb.out[i + 1].mpathIdx # wb.out[i + 2].mpathIdx
          /\ wb.out[i].objName < wb.out[i + 2].objName

(***************************************************************************)
(* C38: during one Walk, object-level errors are skipped until exactly     *)
(* errThreshold of them have been tolerated, and the next object-level     *)
(* error halts the walk.                                                   *)
(***************************************************************************)
SkipsUpToThreshold == wk.skipped <= errThreshold

(***************************************************************************)
(* C39: if addMountpath or removeMountpath returns an error, nothing has   *)
(* changed: the set of mountpaths is as before the call, no runner has     *)
(* been notified, no local rebalance started, and the target's             *)
(* registration is untouched.                                              *)
(***************************************************************************)
FailedCallChangesNothing ==
    [][\A p \in Callers :
          (/\ gp[p].pc = "idle" /\ gp'[p] # gp[p]
           /\ gp'[p].pc = "idle" /\ gp'[p].op \in {"add", "remove"}
           /\ gp'[p].err # NoErr)
            => /\ mp' = mp
               /\ tEnabled' = tEnabled
               /\ gp'[p].visited = {} /\ ~gp'[p].reb /\ ~gp'[p].regCall]_vars

(***************************************************************************)
(* C40: under any calls of Abort on one xaction the abort channel is       *)
(* closed exactly once, the aborted flag becomes and stays true, the end   *)
(* time is set by the first call only, and after Abort has returned the    *)
(* xaction is both Aborted and Finished.                                   *)
(***************************************************************************)
AbortStable ==
    [][(Aborted => Aborted') /\ (Finished => xa.eutime' = xa.eutime)]_vars
AbortedAndFinishedAfterAnyAbort ==
    /\ [](xa.closes <= 1)
    /\ [](xa.returned # {} => Aborted /\ Finished)
    /\ AbortStable
\* C40, amended: Aborted and Finished after the call that set the flag has returned;
\* Aborted after any call has returned
AbortedAndFinishedAfterSetter ==
    /\ [](xa.closes <= 1)
    /\ [](xa.returned # {} => Aborted)
    /\ [](xa.setterBack => Aborted /\ Finished /\ xa.closes = 1)
    /\ AbortStable
\* the caller that made the swap is back, and so are two callers that found the flag set
AbortTwiceWitness ==
    /\ xa.setterBack /\ xa.closes = 1
    /\ Cardinality(xa.returned) = NumCallers
    /\ \E c \in AbortCallers : xa.calls[c] = MaxCalls


====
